---- MODULE Spec2Model ----
(***************************************************************************)
(* Verification model of the optiqal QALY engine:                          *)
(*   python/optiqal/lifecycle.py  life tables and LifecycleModel.calculate *)
(*   python/optiqal/markov.py     Markov state-transition simulator        *)
(*   scripts/precompute_baselines.py  the generator of data/baselines.json *)
(*                                                                         *)
(* Real numbers are fixed-point integers in units of 1/Scale (1e-6).       *)
(* Every product and quotient is floored to that unit, computed so that    *)
(* no intermediate exceeds 32 bits.                                        *)
(***************************************************************************)
EXTENDS Integers, Sequences, FiniteSets, TLC

\* ------------------------------------------------------------------------
\* Fixed-point arithmetic (the model's stand-in for Python floats)
\* ------------------------------------------------------------------------
Scale == 1000 * 1000

Min(a, b) == IF a <= b THEN a ELSE b
Max(a, b) == IF a >= b THEN a ELSE b
Abs(x) == IF x < 0 THEN 0 - x ELSE x

\* floor(a * b / Scale), by long multiplication in base 1000
FMul(a, b) ==
    LET a1 == a \div 1000
        a0 == a % 1000
        b1 == b \div 1000
        b0 == b % 1000
    IN  a1 * b1 + ((a1 * b0 + a0 * b1) + ((a0 * b0) \div 1000)) \div 1000

\* the n leading decimal digits of r / b, for 0 <= r < b
RECURSIVE DivDigits(_, _, _)
DivDigits(r, b, n) ==
    IF n = 0 THEN 0
    ELSE LET q == (r * 10) \div b
             s == (r * 10) % b
             rest == DivDigits(s, b, n - 1)
         IN  q * (10 ^ (n - 1)) + rest

\* floor(a * Scale / b) for b > 0, by long division
FDiv(a, b) == (a \div b) * Scale + DivDigits(a % b, b, 6)

\* sum of y^(2i+1)/(2i+1), i = k..6, given p = y^(2k+1) and y2 = y^2
RECURSIVE AtanhSeries(_, _, _)
AtanhSeries(p, y2, k) ==
    IF k > 6 THEN 0
    ELSE (p \div (2 * k + 1)) + AtanhSeries(FMul(p, y2), y2, k + 1)

\* np.log on (0, 2): halve the argument range, then 2*atanh((v-1)/(v+1))
RECURSIVE Log(_)
Log(v) ==
    IF v * 2 < Scale THEN Log(v * 2) - 693147
    ELSE LET y == FDiv(v - Scale, v + Scale)
         IN  2 * AtanhSeries(y, FMul(y, y), 0)

\* sum of r^i/i!, i = k.., given t = r^(k-1)/(k-1)!
RECURSIVE ExpSeries(_, _, _)
ExpSeries(t, r, k) ==
    IF k > 12 THEN 0
    ELSE LET u == FMul(t, r) \div k
         IN  u + ExpSeries(u, r, k + 1)

\* np.exp: x = r - n*ln2 with 0 <= r < ln2 (n may be negative), exp(x) = exp(r) / 2^n
Exp(x) ==
    LET n == (0 - x + 693146) \div 693147
        r == x + n * 693147
        e == Scale + ExpSeries(Scale, r, 1)
    IN  IF n >= 0 THEN e \div (2 ^ n) ELSE e * (2 ^ (0 - n))

\* floor(sqrt(n)) by bisection on lo..hi, lo * lo <= n < (hi + 1) * (hi + 1)
RECURSIVE SqrtBisect(_, _, _)
SqrtBisect(n, lo, hi) ==
    IF lo >= hi THEN lo
    ELSE LET mid == (lo + hi + 1) \div 2
         IN  IF mid * mid <= n THEN SqrtBisect(n, mid, hi) ELSE SqrtBisect(n, lo, mid - 1)

\* np.sqrt on [0, 1]: sqrt(x / Scale) * Scale, to four decimals
Sqrt(x) == SqrtBisect(x * 100, 0, 10000) * 100

\* base ** n for an integer n >= 0, multiplied out by halves
RECURSIVE Pow(_, _)
Pow(base, n) ==
    IF n <= 0 THEN Scale
    ELSE IF n = 1 THEN base
    ELSE FMul(Pow(base, n \div 2), Pow(base, n - (n \div 2)))

\* ------------------------------------------------------------------------
\* lifecycle.py: life-table substrate
\* ------------------------------------------------------------------------
Sexes == {"male", "female"}

\* qx by anchor age, in units of 1e-6
CDC_LIFE_TABLE ==
    [ male |->
        (0 :> 5660 @@ 1 :> 390 @@ 5 :> 120 @@ 10 :> 110 @@ 15 :> 500 @@
         20 :> 1290 @@ 25 :> 1560 @@ 30 :> 1750 @@ 35 :> 2090 @@ 40 :> 2610 @@
         45 :> 3690 @@ 50 :> 5470 @@ 55 :> 8320 @@ 60 :> 12060 @@ 65 :> 16970 @@
         70 :> 24670 @@ 75 :> 37110 @@ 80 :> 56400 @@ 85 :> 87370 @@
         90 :> 135100 @@ 95 :> 198530 @@ 100 :> 275000),
      female |->
        (0 :> 4760 @@ 1 :> 310 @@ 5 :> 100 @@ 10 :> 90 @@ 15 :> 250 @@
         20 :> 470 @@ 25 :> 590 @@ 30 :> 730 @@ 35 :> 960 @@ 40 :> 1360 @@
         45 :> 2040 @@ 50 :> 3100 @@ 55 :> 4690 @@ 60 :> 6920 @@ 65 :> 10190 @@
         70 :> 15560 @@ 75 :> 25020 @@ 80 :> 40850 @@ 85 :> 68370 @@
         90 :> 112950 @@ 95 :> 176390 @@ 100 :> 255000) ]

Pathways == {"cvd", "cancer", "other"}

CAUSE_FRACTIONS ==
    (40 :> [cvd |-> 200000, cancer |-> 250000, other |-> 550000] @@
     50 :> [cvd |-> 250000, cancer |-> 350000, other |-> 400000] @@
     60 :> [cvd |-> 300000, cancer |-> 350000, other |-> 350000] @@
     70 :> [cvd |-> 350000, cancer |-> 300000, other |-> 350000] @@
     80 :> [cvd |-> 400000, cancer |-> 200000, other |-> 400000] @@
     90 :> [cvd |-> 450000, cancer |-> 120000, other |-> 430000])

QUALITY_WEIGHTS ==
    (25 :> 920000 @@ 35 :> 900000 @@ 45 :> 880000 @@ 55 :> 850000 @@
     65 :> 820000 @@ 75 :> 780000 @@ 85 :> 720000 @@ 95 :> 650000)

\* ages[0] and ages[-1] of sorted(table.keys())
FirstAge(table) == CHOOSE a \in DOMAIN table : \A b \in DOMAIN table : a <= b
LastAge(table) == CHOOSE a \in DOMAIN table : \A b \in DOMAIN table : b <= a

\* the anchors with ages[i] <= age < ages[i + 1]
LowerAge(table, age) ==
    CHOOSE a \in DOMAIN table : a <= age /\ \A b \in DOMAIN table : b <= age => b <= a
UpperAge(table, age) ==
    CHOOSE a \in DOMAIN table : a > age /\ \A b \in DOMAIN table : b > age => a <= b

\* fraction = (age - lower_age) / (upper_age - lower_age)
Fraction(table, age) ==
    FDiv((age - LowerAge(table, age)) * Scale,
         (UpperAge(table, age) - LowerAge(table, age)) * Scale)

\* lower + fraction * (upper - lower)
Lerp(lower, upper, fraction) == lower + FMul(fraction, upper - lower)

interpolate_table(table, age) ==
    IF age <= FirstAge(table) THEN table[FirstAge(table)]
    ELSE IF age >= LastAge(table) THEN table[LastAge(table)]
    ELSE LET lower_val == table[LowerAge(table, age)]
             upper_val == table[UpperAge(table, age)]
             fraction == Fraction(table, age)
         IN  IF lower_val > 0 /\ upper_val > 0
             THEN Exp(Log(lower_val) + FMul(fraction, Log(upper_val) - Log(lower_val)))
             ELSE Lerp(lower_val, upper_val, fraction)

\* ages any lookup of the model can ask for
LookupAges == (0 - 5)..110

MortalityByAge ==
    [sex \in Sexes |-> [age \in LookupAges |-> interpolate_table(CDC_LIFE_TABLE[sex], age)]]

get_mortality_rate(age, sex) == MortalityByAge[sex][age]

\* mutant: the "other" fraction is read off the lower anchor, not interpolated
get_cause_fraction_OtherNotInterpolated(age) ==
    IF age <= FirstAge(CAUSE_FRACTIONS) THEN CAUSE_FRACTIONS[FirstAge(CAUSE_FRACTIONS)]
    ELSE IF age >= LastAge(CAUSE_FRACTIONS) THEN CAUSE_FRACTIONS[LastAge(CAUSE_FRACTIONS)]
    ELSE LET lower == CAUSE_FRACTIONS[LowerAge(CAUSE_FRACTIONS, age)]
             upper == CAUSE_FRACTIONS[UpperAge(CAUSE_FRACTIONS, age)]
             fraction == Fraction(CAUSE_FRACTIONS, age)
         IN  [p \in Pathways |->
                IF p = "other" THEN lower[p] ELSE Lerp(lower[p], upper[p], fraction)]

get_cause_fraction(age) ==
    IF age <= FirstAge(CAUSE_FRACTIONS) THEN CAUSE_FRACTIONS[FirstAge(CAUSE_FRACTIONS)]
    ELSE IF age >= LastAge(CAUSE_FRACTIONS) THEN CAUSE_FRACTIONS[LastAge(CAUSE_FRACTIONS)]
    ELSE LET lower == CAUSE_FRACTIONS[LowerAge(CAUSE_FRACTIONS, age)]
             upper == CAUSE_FRACTIONS[UpperAge(CAUSE_FRACTIONS, age)]
             fraction == Fraction(CAUSE_FRACTIONS, age)
         IN  [p \in Pathways |-> Lerp(lower[p], upper[p], fraction)]

get_quality_weight(age) ==
    IF age <= FirstAge(QUALITY_WEIGHTS) THEN QUALITY_WEIGHTS[FirstAge(QUALITY_WEIGHTS)]
    ELSE IF age >= LastAge(QUALITY_WEIGHTS) THEN QUALITY_WEIGHTS[LastAge(QUALITY_WEIGHTS)]
    ELSE Lerp(QUALITY_WEIGHTS[LowerAge(QUALITY_WEIGHTS, age)],
              QUALITY_WEIGHTS[UpperAge(QUALITY_WEIGHTS, age)],
              Fraction(QUALITY_WEIGHTS, age))

\* discount = 1 / (1 + discount_rate) ** year
Discount(discount_rate, year) == FDiv(Scale, Pow(Scale + discount_rate, year))

\* ------------------------------------------------------------------------
\* scripts/precompute_baselines.py and the cache lookup of lifecycle.py
\* ------------------------------------------------------------------------
\* a missing value (Python's None); every real value it stands in for is >= 0
None == 0 - 1

SURVIVAL_FLOOR == 1000
BASE_QX_CAP == 990000
DEFAULT_DISCOUNT_RATE == 30000
LIFECYCLE_MAX_AGE == 100

\* round(x, 3) for x >= 0
Round3(x) == ((x + 500) \div 1000) * 1000

\* the locals of calculate_remaining_qalys; done marks that the loop has ended
RemainingQalysStart == [year |-> 0, survival |-> Scale, qalys |-> 0, done |-> FALSE]

\* one iteration of its loop
RemainingQalysYear(s, start_age, sex) ==
    IF s.done \/ s.year >= LIFECYCLE_MAX_AGE - start_age THEN [s EXCEPT !.done = TRUE]
    ELSE LET current_age == start_age + s.year
             qx == get_mortality_rate(current_age, sex)
             weight == get_quality_weight(current_age)
             discount == Discount(DEFAULT_DISCOUNT_RATE, s.year)
             survived == FMul(s.survival, Scale - qx)
         IN  [ year |-> s.year + 1,
               survival |-> survived,
               qalys |-> s.qalys + FMul(FMul(s.survival, weight), discount),
               done |-> survived < SURVIVAL_FLOOR ]

\* n iterations of it, evaluated by halves
RECURSIVE RemainingQalysLoop(_, _, _, _)
RemainingQalysLoop(s, start_age, sex, n) ==
    IF n <= 0 THEN s
    ELSE IF n = 1 THEN RemainingQalysYear(s, start_age, sex)
    ELSE LET half == RemainingQalysLoop(s, start_age, sex, n \div 2)
         IN  IF half.done THEN half
             ELSE RemainingQalysLoop(half, start_age, sex, n - (n \div 2))

calculate_remaining_qalys(start_age, sex) ==
    RemainingQalysLoop(RemainingQalysStart, start_age, sex, LIFECYCLE_MAX_AGE - start_age).qalys

\* data["remaining_qalys"][sex][age] of baselines.json, as precompute_baselines writes it
RemainingQalysEntry(age, sex) == Round3(calculate_remaining_qalys(age, sex))

\* data/baselines.json as it is on disk: absent, or holding an entry for each
\* (sex, age) of keys
NoFile == [exists |-> FALSE, keys |-> {}]
CompleteFile == [exists |-> TRUE, keys |-> Sexes \X (0..LIFECYCLE_MAX_AGE)]
PartialFile == [exists |-> TRUE, keys |-> {"male"} \X (0..(LIFECYCLE_MAX_AGE - 5))]
BaselineFiles == {NoFile, CompleteFile, PartialFile}

\* _PRECOMPUTED_BASELINES = None
NotLoaded == [loaded |-> FALSE, keys |-> {}]

\* the global _PRECOMPUTED_BASELINES after load_precomputed_baselines: read
\* from the file on the first call, unchanged when open() raises
load_precomputed_baselines(global, file) ==
    IF global.loaded THEN global
    ELSE IF file.exists THEN [loaded |-> TRUE, keys |-> file.keys]
    ELSE global

\* mutant: a missing entry reads as 0.0 instead of None
get_precomputed_baseline_qalys_MissingIsZero(age, sex, global, file) ==
    LET loaded == load_precomputed_baselines(global, file)
    IN  IF loaded.loaded /\ <<sex, age>> \in loaded.keys THEN RemainingQalysEntry(age, sex)
        ELSE 0

\* None outside 0..100, on FileNotFoundError and on KeyError
get_precomputed_baseline_qalys(age, sex, global, file) ==
    IF age < 0 \/ age > 100 THEN None
    ELSE LET loaded == load_precomputed_baselines(global, file)
         IN  IF ~loaded.loaded THEN None
             ELSE IF <<sex, age>> \notin loaded.keys THEN None
             ELSE RemainingQalysEntry(age, sex)

\* ------------------------------------------------------------------------
\* lifecycle.py: LifecycleModel
\* ------------------------------------------------------------------------
PathwayHRs(cvd, cancer, other) == [cvd |-> cvd, cancer |-> cancer, other |-> other]

\* the condition under which __init__ asks for the precomputed baseline
WantsPrecomputed(discount_rate, use_precomputed, multiplier) ==
    use_precomputed /\ discount_rate = DEFAULT_DISCOUNT_RATE /\ multiplier = Scale

\* mutant: the discount rate is not compared with 0.03
PrecomputedFor_AnyDiscount(start_age, sex, discount_rate, use_precomputed, multiplier, global, file) ==
    IF use_precomputed /\ multiplier = Scale
    THEN get_precomputed_baseline_qalys(start_age, sex, global, file)
    ELSE None

\* self._precomputed_baseline_qalys as __init__ leaves it
PrecomputedFor(start_age, sex, discount_rate, use_precomputed, multiplier, global, file) ==
    IF WantsPrecomputed(discount_rate, use_precomputed, multiplier)
    THEN get_precomputed_baseline_qalys(start_age, sex, global, file)
    ELSE None

\* _PRECOMPUTED_BASELINES as __init__ leaves it
BaselinesAfter(start_age, discount_rate, use_precomputed, multiplier, global, file) ==
    IF WantsPrecomputed(discount_rate, use_precomputed, multiplier)
       /\ ~(start_age < 0 \/ start_age > 100)
    THEN load_precomputed_baselines(global, file)
    ELSE global

\* base_qx = min(get_mortality_rate(current_age, sex) * multiplier, 0.99)
AdjustedQx(age, sex, multiplier) ==
    Min(FMul(get_mortality_rate(age, sex), multiplier), BASE_QX_CAP)

\* one iteration of the baseline loop of calculate's full computation path,
\* on the locals [year, survival, qalys, done]
FullBaselineYear(s, start_age, sex, discount_rate, multiplier, max_age) ==
    IF s.done \/ s.year >= max_age - start_age THEN [s EXCEPT !.done = TRUE]
    ELSE LET current_age == start_age + s.year
             base_qx == AdjustedQx(current_age, sex, multiplier)
             weight == get_quality_weight(current_age)
             discount == Discount(discount_rate, s.year)
             survived == FMul(s.survival, Scale - base_qx)
         IN  [ year |-> s.year + 1,
               survival |-> survived,
               qalys |-> s.qalys + FMul(FMul(s.survival, weight), discount),
               done |-> survived < SURVIVAL_FLOOR ]

\* n iterations of it, evaluated by halves
RECURSIVE FullBaselineLoop(_, _, _, _, _, _, _)
FullBaselineLoop(s, start_age, sex, discount_rate, multiplier, max_age, n) ==
    IF n <= 0 THEN s
    ELSE IF n = 1 THEN FullBaselineYear(s, start_age, sex, discount_rate, multiplier, max_age)
    ELSE LET half == FullBaselineLoop(s, start_age, sex, discount_rate, multiplier, max_age,
                                      n \div 2)
         IN  IF half.done THEN half
             ELSE FullBaselineLoop(half, start_age, sex, discount_rate, multiplier, max_age,
                                   n - (n \div 2))

\* baseline_qalys as the full computation path integrates it
FullPathBaseline(start_age, sex, discount_rate, multiplier, max_age) ==
    FullBaselineLoop(RemainingQalysStart, start_age, sex, discount_rate, multiplier, max_age,
                     max_age - start_age).qalys

\* cause_frac["cvd"] * w.cvd + cause_frac["cancer"] * w.cancer + cause_frac["other"] * w.other
Weighted(cause_frac, w) ==
    FMul(cause_frac.cvd, w.cvd) + FMul(cause_frac.cancer, w.cancer)
        + FMul(cause_frac.other, w.other)

\* mutant: the hazard ratios are summed without their cause fractions
InterventionQx_Unweighted(base_qx, cause_frac, pathway_hrs) ==
    FMul(base_qx, pathway_hrs.cvd + pathway_hrs.cancer + pathway_hrs.other)

\* intervention_qx = base_qx * (sum of cause_frac[p] * pathway_hrs[p])
InterventionQx(base_qx, cause_frac, pathway_hrs) ==
    FMul(base_qx, Weighted(cause_frac, pathway_hrs))

\* total_reduction = sum of cause_frac[p] * (1 - pathway_hrs[p])
TotalReduction(cause_frac, pathway_hrs) ==
    Weighted(cause_frac, [p \in Pathways |-> Scale - pathway_hrs[p]])

\* (qaly_diff * cause_frac[p] * (1 - pathway_hrs[p])) / total_reduction; the
\* quotient is taken before the product with qaly_diff, which keeps the
\* relative precision a float has when total_reduction is small
PathwayShare(qaly_diff, cause_frac, pathway_hrs, p) ==
    FMul(qaly_diff,
         FDiv(FMul(cause_frac[p], Scale - pathway_hrs[p]),
              TotalReduction(cause_frac, pathway_hrs)))

\* the pathway contributions after one more year
Contributions(contribution, qaly_diff, cause_frac, pathway_hrs) ==
    IF qaly_diff > 0 /\ TotalReduction(cause_frac, pathway_hrs) > 0
    THEN [p \in Pathways |->
            contribution[p] + PathwayShare(qaly_diff, cause_frac, pathway_hrs, p)]
    ELSE contribution

LifecycleResult(c, discount_rate) ==
    [ baseline_qalys |-> c.baseline_qalys,
      intervention_qalys |-> c.intervention_qalys,
      qaly_gain |-> c.intervention_qalys - c.baseline_qalys,
      life_years_gained |-> c.intervention_life_years - c.baseline_life_years,
      pathway_contributions |-> c.contribution,
      discount_rate |-> discount_rate ]

\* ------------------------------------------------------------------------
\* markov.py: tables
\* ------------------------------------------------------------------------
ConditionList ==
    <<"diabetes", "hypertension", "heart_disease", "stroke", "cancer", "arthritis">>
Conditions == {ConditionList[i] : i \in 1..Len(ConditionList)}

INCIDENCE_RATES ==
    [ diabetes |->
        (30 :> 2300 @@ 45 :> 7100 @@ 55 :> 9300 @@ 65 :> 10400 @@ 75 :> 8300 @@ 85 :> 6300),
      hypertension |->
        (30 :> 8300 @@ 45 :> 15800 @@ 55 :> 26500 @@ 65 :> 41400 @@ 75 :> 30200 @@ 85 :> 45100),
      heart_disease |->
        (30 :> 600 @@ 45 :> 3000 @@ 55 :> 7100 @@ 65 :> 10700 @@ 75 :> 16000 @@ 85 :> 17100),
      stroke |->
        (30 :> 200 @@ 45 :> 1500 @@ 55 :> 2600 @@ 65 :> 6100 @@ 75 :> 7000 @@ 85 :> 10400),
      cancer |->
        (30 :> 1300 @@ 45 :> 3300 @@ 55 :> 7900 @@ 65 :> 11000 @@ 75 :> 22600 @@ 85 :> 18400),
      arthritis |->
        (30 :> 4600 @@ 45 :> 15400 @@ 55 :> 28400 @@ 65 :> 42800 @@ 75 :> 47200 @@ 85 :> 46200) ]

CONDITION_MORTALITY_MULTIPLIERS ==
    [ diabetes |-> 1800000, hypertension |-> 1300000, heart_disease |-> 2000000,
      stroke |-> 2500000, cancer |-> 1500000, arthritis |-> 1100000 ]

\* markov.py imports CONDITION_DECREMENTS from lifecycle.py, which does not
\* define it: a table of per-condition quality decrements, each in (0, 1)
CONDITION_DECREMENTS ==
    [ diabetes |-> 100000, hypertension |-> 50000, heart_disease |-> 120000,
      stroke |-> 150000, cancer |-> 100000, arthritis |-> 80000 ]

MORTALITY_CAP == 990000
QUALITY_FLOOR == 100000
DEFAULT_MAX_AGE == 100

\* rates[lower] + frac * (rates[upper] - rates[lower]), clamped outside the anchors
interpolate_rates(rates, age) ==
    IF age <= FirstAge(rates) THEN rates[FirstAge(rates)]
    ELSE IF age >= LastAge(rates) THEN rates[LastAge(rates)]
    ELSE Lerp(rates[LowerAge(rates, age)], rates[UpperAge(rates, age)], Fraction(rates, age))

get_incidence_rate(cond, age) ==
    IF cond \notin DOMAIN INCIDENCE_RATES THEN 0
    ELSE interpolate_rates(INCIDENCE_RATES[cond], age)

\* ------------------------------------------------------------------------
\* markov.py: HealthState
\* ------------------------------------------------------------------------
HealthState(alive, has) ==
    [ alive |-> alive, diabetes |-> "diabetes" \in has, hypertension |-> "hypertension" \in has,
      heart_disease |-> "heart_disease" \in has, stroke |-> "stroke" \in has,
      cancer |-> "cancer" \in has, arthritis |-> "arthritis" \in has ]

Healthy == HealthState(TRUE, {})

Present(st) == {c \in Conditions : st[c]}

RECURSIVE DecrementFrom(_, _)
DecrementFrom(st, i) ==
    IF i > Len(ConditionList) THEN 0
    ELSE (IF st[ConditionList[i]] THEN CONDITION_DECREMENTS[ConditionList[i]] ELSE 0)
         + DecrementFrom(st, i + 1)

get_quality_decrement(st) == DecrementFrom(st, 1)

RECURSIVE MultiplierFrom(_, _, _)
MultiplierFrom(st, multiplier, i) ==
    IF i > Len(ConditionList) THEN multiplier
    ELSE MultiplierFrom(st,
                        IF st[ConditionList[i]]
                        THEN FMul(multiplier, CONDITION_MORTALITY_MULTIPLIERS[ConditionList[i]])
                        ELSE multiplier,
                        i + 1)

get_mortality_multiplier(st) == MultiplierFrom(st, Scale, 1)

\* ------------------------------------------------------------------------
\* numpy Generator: a seeded stream of draws; rng = [seed, pos]
\* ------------------------------------------------------------------------
NumSeeds == 6
Seeds == 0..(NumSeeds - 1)

\* the values a uniform draw takes in the model, all in [0, 1)
DrawLevels == <<0, 20000, 150000, 400000, 999999>>
\* the values a standard normal draw takes in the model
NormalLevels == <<0 - 1500000, 0 - 500000, 0, 500000, 1500000>>

StreamIndex(seed, pos) ==
    LET p == pos % 251
        h == (seed + 1) * 7919 + (p + 1) * (p + 7) * 31 + seed * (pos % 127) * 97 + pos
    IN  ((h % 1009) % 5) + 1

default_rng(seed) == [seed |-> seed, pos |-> 0]

\* mutant: the call goes on drawing from the generator the previous call left
EntryGenerator_Continue(random_state, left_behind) == left_behind

\* rng = np.random.default_rng(random_state) at the head of an entry point,
\* random_state not None; left_behind is the generator of the call before
EntryGenerator(random_state, left_behind) == default_rng(random_state)
Advance(r, n) == [r EXCEPT !.pos = r.pos + n]
\* rng.random(): the value at the stream position
random(r) == DrawLevels[StreamIndex(r.seed, r.pos)]
\* rng.random(n): n consecutive values
random_array(r, n) == [k \in 1..n |-> DrawLevels[StreamIndex(r.seed, r.pos + k - 1)]]
\* rng.normal(0, std)
normal(r, std) == FMul(std, NormalLevels[StreamIndex(r.seed, r.pos)])

\* ------------------------------------------------------------------------
\* markov.py: one iteration of the yearly loop
\* ------------------------------------------------------------------------
NoneAcquired == [c \in Conditions |-> None]

\* quality = max(0.1, base_quality - state.get_quality_decrement())
YearQuality(st, age) ==
    Max(QUALITY_FLOOR, get_quality_weight(age) - get_quality_decrement(st))

\* mutant: the cap is missing
YearMortality_Uncapped(st, age, sex, hr) ==
    FMul(FMul(get_mortality_rate(age, sex), get_mortality_multiplier(st)), hr)

\* mortality = min(base_mortality * multiplier * hr, 0.99)
YearMortality(st, age, sex, hr) ==
    Min(FMul(FMul(get_mortality_rate(age, sex), get_mortality_multiplier(st)), hr),
        MORTALITY_CAP)

\* mutant: the draw is made for conditions already present as well
RECURSIVE IncidenceFrom_Redraw(_, _, _, _, _)
IncidenceFrom_Redraw(st, acquired, age, cdraws, i) ==
    IF i > Len(ConditionList) THEN [state |-> st, conditions_acquired |-> acquired]
    ELSE LET cond == ConditionList[i]
             hit == cdraws[cond] < get_incidence_rate(cond, age)
         IN  IncidenceFrom_Redraw(IF hit THEN [st EXCEPT ![cond] = TRUE] ELSE st,
                                  IF hit THEN [acquired EXCEPT ![cond] = age] ELSE acquired,
                                  age, cdraws, i + 1)

\* for cond in conditions: if not getattr(state, cond) and draw < incidence: set it
RECURSIVE IncidenceFrom(_, _, _, _, _)
IncidenceFrom(st, acquired, age, cdraws, i) ==
    IF i > Len(ConditionList) THEN [state |-> st, conditions_acquired |-> acquired]
    ELSE LET cond == ConditionList[i]
             hit == ~st[cond] /\ cdraws[cond] < get_incidence_rate(cond, age)
         IN  IncidenceFrom(IF hit THEN [st EXCEPT ![cond] = TRUE] ELSE st,
                           IF hit THEN [acquired EXCEPT ![cond] = age] ELSE acquired,
                           age, cdraws, i + 1)

\* mutant: incidence drawn before the QALY is accrued
YearTransition_IncidenceFirst(st, acquired, age, sex, hr, discount, cdraws, mdraw) ==
    LET inc == IncidenceFrom(st, acquired, age, cdraws, 1)
        quality == YearQuality(inc.state, age)
        mortality == YearMortality(inc.state, age, sex, hr)
    IN  [ qaly |-> FMul(quality, discount),
          quality |-> quality,
          mortality |-> mortality,
          conditions_acquired |-> inc.conditions_acquired,
          state |-> [inc.state EXCEPT !.alive = ~(mdraw < mortality)] ]

\* The loop body, for a person alive at the start of the year: accrue the QALY,
\* then incidence, then the mortality draw.  cdraws[cond] and mdraw are the
\* uniform draws the iteration compares with the incidence and mortality rates.
YearTransition(st, acquired, age, sex, hr, discount, cdraws, mdraw) ==
    LET quality == YearQuality(st, age)
        inc == IncidenceFrom(st, acquired, age, cdraws, 1)
        mortality == YearMortality(inc.state, age, sex, hr)
    IN  [ qaly |-> FMul(quality, discount),
          quality |-> quality,
          mortality |-> mortality,
          conditions_acquired |-> inc.conditions_acquired,
          state |-> [inc.state EXCEPT !.alive = ~(mdraw < mortality)] ]

\* rng.random() is called once per condition not yet present, in list order,
\* then once for mortality
AbsentBefore(st, i) == Cardinality({j \in 1..(i - 1) : ~st[ConditionList[j]]})
LazyConditionDraws(st, r) ==
    [cond \in Conditions |->
        LET i == CHOOSE j \in 1..Len(ConditionList) : ConditionList[j] = cond
        IN  random(Advance(r, AbsentBefore(st, i)))]
AbsentCount(st) == Cardinality(Conditions \ Present(st))

MarkovResult(q, ly, start_age, acquired) ==
    [ qalys |-> q, life_years |-> ly, death_age |-> start_age + ly,
      conditions_acquired |-> acquired ]

\* ------------------------------------------------------------------------
\* markov.py: simulate_with_state_uncertainty, helpers
\* ------------------------------------------------------------------------
FRAILTY_STD == 300000

PREVALENCE_RATES ==
    [ diabetes |->
        (30 :> 40000 @@ 45 :> 100000 @@ 55 :> 160000 @@ 65 :> 230000 @@ 75 :> 260000 @@ 85 :> 240000),
      hypertension |->
        (30 :> 120000 @@ 45 :> 300000 @@ 55 :> 450000 @@ 65 :> 580000 @@ 75 :> 650000 @@ 85 :> 700000),
      heart_disease |->
        (30 :> 20000 @@ 45 :> 60000 @@ 55 :> 110000 @@ 65 :> 180000 @@ 75 :> 280000 @@ 85 :> 350000),
      stroke |->
        (30 :> 10000 @@ 45 :> 20000 @@ 55 :> 30000 @@ 65 :> 60000 @@ 75 :> 100000 @@ 85 :> 140000),
      cancer |->
        (30 :> 30000 @@ 45 :> 50000 @@ 55 :> 90000 @@ 65 :> 160000 @@ 75 :> 240000 @@ 85 :> 300000),
      arthritis |->
        (30 :> 80000 @@ 45 :> 200000 @@ 55 :> 320000 @@ 65 :> 420000 @@ 75 :> 500000 @@ 85 :> 550000) ]

get_prevalence(cond, age) ==
    IF cond \notin DOMAIN PREVALENCE_RATES THEN 0
    ELSE interpolate_rates(PREVALENCE_RATES[cond], age)

\* unknown_conditions = [c for c in all_conditions if c not in known_state]
UnknownConditions(known_state) == SelectSeq(ConditionList, LAMBDA c : c \notin DOMAIN known_state)

\* mutant: the frailty std does not shrink with what is known
EffectiveFrailtyStd_Fixed(known_state) == FRAILTY_STD

\* mutant: the fraction of unknown conditions is used without its square root
EffectiveFrailtyStd_NoSqrt(known_state) ==
    FMul(FRAILTY_STD,
         FDiv(Len(UnknownConditions(known_state)) * Scale, Len(ConditionList) * Scale))

\* effective_frailty_std = FRAILTY_STD * np.sqrt(len(unknown) / len(all))
EffectiveFrailtyStd(known_state) ==
    FMul(FRAILTY_STD,
         Sqrt(FDiv(Len(UnknownConditions(known_state)) * Scale, Len(ConditionList) * Scale)))

\* for cond, has_it in known_state.items(): setattr(state, cond, has_it)
SetKnown(st, known_state) ==
    [f \in DOMAIN st |-> IF f \in DOMAIN known_state THEN known_state[f] ELSE st[f]]

\* for cond in unknown_conditions: if rng.random() < prevalence: setattr(state, cond, True)
RECURSIVE SampleUnknown(_, _, _, _, _)
SampleUnknown(st, unknown, age, r, i) ==
    IF i > Len(unknown) THEN st
    ELSE SampleUnknown(IF random(Advance(r, i - 1)) < get_prevalence(unknown[i], age)
                       THEN [st EXCEPT ![unknown[i]] = TRUE] ELSE st,
                       unknown, age, r, i + 1)

\* mutant: every condition is sampled, known or not
UncertainInitialState_SampleAll(known_state, age, r) ==
    SampleUnknown(SetKnown(Healthy, known_state), ConditionList, age, r, 1)

\* the initial HealthState of one simulated lifetime; r is the generator after
\* the frailty draw
UncertainInitialState(known_state, age, r) ==
    SampleUnknown(SetKnown(Healthy, known_state), UnknownConditions(known_state), age, r, 1)

RECURSIVE SumSeq(_, _)
SumSeq(xs, i) == IF i > Len(xs) THEN 0 ELSE xs[i] + SumSeq(xs, i + 1)

\* np.mean
Mean(xs) == SumSeq(xs, 1) \div Len(xs)

\* np.std: sqrt(mean((x - mean) ** 2)), to three decimals
Std(xs) ==
    LET m == Mean(xs)
        sq == [i \in 1..Len(xs) |-> FMul(xs[i] - m, xs[i] - m)]
    IN  SqrtBisect(Mean(sq), 0, 46340) * 1000

UncertaintyOutput(qs, lys, n, known_state) ==
    [ qalys |-> [mean |-> Mean(qs), std |-> Std(qs)],
      life_years |-> [mean |-> Mean([i \in 1..Len(lys) |-> lys[i] * Scale]),
                      std |-> Std([i \in 1..Len(lys) |-> lys[i] * Scale])],
      n_simulations |-> n,
      known_conditions |-> DOMAIN known_state,
      unknown_conditions |-> UnknownConditions(known_state),
      effective_frailty_std |-> EffectiveFrailtyStd(known_state) ]

\* ------------------------------------------------------------------------
\* markov.py: simulate_markov_monte_carlo, helpers
\* ------------------------------------------------------------------------
\* np.sort
np_sort(xs) ==
    LET n == Len(xs)
        rank(i) == Cardinality({j \in 1..n : xs[j] < xs[i] \/ (xs[j] = xs[i] /\ j < i)}) + 1
    IN  [k \in 1..n |-> xs[CHOOSE i \in 1..n : rank(i) = k]]

\* np.median: the middle value, or the mean of the two middle values
Median(xs) ==
    LET sorted == np_sort(xs)
        n == Len(xs)
    IN  (sorted[(n + 1) \div 2] + sorted[(n + 2) \div 2]) \div 2

\* np.percentile(xs, q), linear interpolation at q/100 * (n - 1); q is in
\* percent at Scale
Percentile(xs, q) ==
    LET sorted == np_sort(xs)
        n == Len(xs)
        position == (q \div 100) * (n - 1)
        lo == position \div Scale
        hi == Min(lo + 1, n - 1)
    IN  sorted[lo + 1] + FMul(position % Scale, sorted[hi + 1] - sorted[lo + 1])

\* float(np.mean(xs > 0))
ProbPositive(xs) == (Cardinality({i \in 1..Len(xs) : xs[i] > 0}) * Scale) \div Len(xs)

\* res holds the pairs simulate_lifetime_paired returned, in order: the
\* baseline result of simulation i at 2i - 1, the intervention result at 2i
MonteCarloOutput(res, n) ==
    LET baseline_qalys == [i \in 1..n |-> res[2 * i - 1].qalys]
        intervention_qalys == [i \in 1..n |-> res[2 * i].qalys]
        qaly_gains == [i \in 1..n |-> intervention_qalys[i] - baseline_qalys[i]]
        life_years_gained ==
            [i \in 1..n |-> (res[2 * i].life_years - res[2 * i - 1].life_years) * Scale]
    IN  [ baseline_qalys |->
            [ mean |-> Mean(baseline_qalys), std |-> Std(baseline_qalys),
              median |-> Median(baseline_qalys),
              ci95 |-> <<Percentile(baseline_qalys, 2500000),
                         Percentile(baseline_qalys, 97500000)>> ],
          intervention_qalys |->
            [ mean |-> Mean(intervention_qalys), std |-> Std(intervention_qalys) ],
          qaly_gain |->
            [ mean |-> Mean(qaly_gains), std |-> Std(qaly_gains),
              median |-> Median(qaly_gains),
              ci95 |-> <<Percentile(qaly_gains, 2500000), Percentile(qaly_gains, 97500000)>>,
              prob_positive |-> ProbPositive(qaly_gains) ],
          life_years_gained |->
            [ mean |-> Mean(life_years_gained), std |-> Std(life_years_gained),
              median |-> Median(life_years_gained) ],
          n_simulations |-> n ]

\* ------------------------------------------------------------------------
\* confounding.py
\* ------------------------------------------------------------------------
\* ConfoundingPrior(alpha, beta); rationale and calibration_sources are text
ConfoundingPrior(alpha, beta) == [alpha |-> alpha, beta |-> beta]

\* ConfoundingPrior.mean
PriorMean(prior) == FDiv(prior.alpha, prior.alpha + prior.beta)

CATEGORY_PRIORS ==
    [ exercise |-> ConfoundingPrior(1200000, 6000000),
      diet |-> ConfoundingPrior(3000000, 3000000),
      sleep |-> ConfoundingPrior(1500000, 4500000),
      stress |-> ConfoundingPrior(1200000, 5000000),
      substance |-> ConfoundingPrior(2000000, 4000000),
      medical |-> ConfoundingPrior(2500000, 4000000),
      social |-> ConfoundingPrior(1000000, 5500000),
      other |-> ConfoundingPrior(1200000, 4800000) ]

EVIDENCE_ADJUSTMENTS ==
    [ meta_analysis |-> 1100000, rct |-> 1500000, cohort |-> 800000,
      case_control |-> 700000, review |-> Scale, other |-> 900000 ]

\* the key of EVIDENCE_ADJUSTMENTS an evidence_type string is: "meta-analysis"
\* and "case-control" are spelt with "_" in the record above
EvidenceKey(evidence_type) ==
    IF evidence_type = "meta-analysis" THEN "meta_analysis"
    ELSE IF evidence_type = "case-control" THEN "case_control"
    ELSE evidence_type

\* evidence_type = None
NoEvidenceType == "<None>"

\* EVIDENCE_ADJUSTMENTS.get(evidence_type, 1.0)
EvidenceMultiplier(evidence_type) ==
    IF EvidenceKey(evidence_type) \in DOMAIN EVIDENCE_ADJUSTMENTS
    THEN EVIDENCE_ADJUSTMENTS[EvidenceKey(evidence_type)]
    ELSE Scale

\* CATEGORY_PRIORS.get(category, CATEGORY_PRIORS["other"]): the key that is read
BaseCategory(priors, category) == IF category \in DOMAIN priors THEN category ELSE "other"

\* mutant: the base prior is scaled in place and returned
get_confounding_prior_InPlace(priors, category, evidence_type) ==
    LET key == BaseCategory(priors, category)
        scaled == ConfoundingPrior(FMul(priors[key].alpha, EvidenceMultiplier(evidence_type)),
                                   priors[key].beta)
    IN  IF evidence_type = NoEvidenceType
        THEN [returned |-> priors[key], priors |-> priors]
        ELSE [returned |-> scaled, priors |-> [priors EXCEPT ![key] = scaled]]

\* mutant: the multiplier scales beta as well
get_confounding_prior_ScalesBeta(priors, category, evidence_type) ==
    LET base == priors[BaseCategory(priors, category)]
    IN  [ returned |->
            IF evidence_type = NoEvidenceType THEN base
            ELSE ConfoundingPrior(FMul(base.alpha, EvidenceMultiplier(evidence_type)),
                                  FMul(base.beta, EvidenceMultiplier(evidence_type))),
          priors |-> priors ]

\* get_confounding_prior, reading the module's table priors: the prior it
\* returns and the table as the call leaves it
get_confounding_prior(priors, category, evidence_type) ==
    LET base == priors[BaseCategory(priors, category)]
    IN  [ returned |->
            IF evidence_type = NoEvidenceType THEN base
            ELSE ConfoundingPrior(FMul(base.alpha, EvidenceMultiplier(evidence_type)),
                                  base.beta),
          priors |-> priors ]

\* np.exp(causal_fraction * np.log(observed_hr))
adjust_hr(observed_hr, causal_fraction) == Exp(FMul(causal_fraction, Log(observed_hr)))

\* ------------------------------------------------------------------------
\* profile.py
\* ------------------------------------------------------------------------
Profile(age, sex, bmi_category, smoking_status, has_diabetes, has_hypertension, activity_level) ==
    [ age |-> age, sex |-> sex, bmi_category |-> bmi_category,
      smoking_status |-> smoking_status, has_diabetes |-> has_diabetes,
      has_hypertension |-> has_hypertension, activity_level |-> activity_level ]

BMI_MORTALITY_RR ==
    [normal |-> Scale, overweight |-> 1110000, obese |-> 1440000, severely_obese |-> 2060000]
SMOKING_MORTALITY_RR == [never |-> Scale, former |-> 1340000, current |-> 2800000]
DIABETES_MORTALITY_RR == 1800000
HYPERTENSION_MORTALITY_RR == 1500000
ACTIVITY_MORTALITY_RR ==
    [sedentary |-> 1400000, light |-> 1150000, moderate |-> Scale, active |-> 900000]

\* mutant: the hypertension relative risk is left out of the product
get_baseline_mortality_multiplier_NoHypertension(profile) ==
    LET bmi_rr == BMI_MORTALITY_RR[profile.bmi_category]
        smoking_rr == SMOKING_MORTALITY_RR[profile.smoking_status]
        diabetes_rr == IF profile.has_diabetes THEN DIABETES_MORTALITY_RR ELSE Scale
        activity_rr == ACTIVITY_MORTALITY_RR[profile.activity_level]
    IN  FMul(FMul(FMul(bmi_rr, smoking_rr), diabetes_rr), activity_rr)

\* bmi_rr * smoking_rr * diabetes_rr * hypertension_rr * activity_rr
get_baseline_mortality_multiplier(profile) ==
    LET bmi_rr == BMI_MORTALITY_RR[profile.bmi_category]
        smoking_rr == SMOKING_MORTALITY_RR[profile.smoking_status]
        diabetes_rr == IF profile.has_diabetes THEN DIABETES_MORTALITY_RR ELSE Scale
        hypertension_rr == IF profile.has_hypertension THEN HYPERTENSION_MORTALITY_RR ELSE Scale
        activity_rr == ACTIVITY_MORTALITY_RR[profile.activity_level]
    IN  FMul(FMul(FMul(FMul(bmi_rr, smoking_rr), diabetes_rr), hypertension_rr), activity_rr)

\* ------------------------------------------------------------------------
\* intervention.py: Distribution; simulate.py: helpers of simulate_qaly
\* ------------------------------------------------------------------------
PointDistribution(value) == [type |-> "point", value |-> value]
LogNormal(log_mean, log_sd) == [type |-> "lognormal", log_mean |-> log_mean, log_sd |-> log_sd]

\* Distribution.sample(n, random_state): the generator is made anew from
\* random_state, so sample i is drawn at stream position i - 1
DistributionSample(dist, n, random_state) ==
    [i \in 1..n |->
        IF dist.type = "point" THEN dist.value
        ELSE Exp(dist.log_mean + normal(Advance(default_rng(random_state), i - 1),
                                        dist.log_sd))]

\* rng.beta(alpha, beta): a value in (0, 1) that grows with the uniform draw
\* at the stream position and with alpha / (alpha + beta)
beta_draw(r, alpha, b) ==
    LET u == Min(Max(random(r), 1000), 999000)
    IN  FDiv(FMul(u, alpha), FMul(u, alpha) + FMul(Scale - u, b))

\* ConfoundingPrior.sample(n, random_state), again from a generator made anew
ConfoundingPriorSample(prior, n, random_state) ==
    [i \in 1..n |-> beta_draw(Advance(default_rng(random_state), i - 1),
                              prior.alpha, prior.beta)]

\* hr_samples and causal_samples of simulate_qaly
HrSamples(a) ==
    DistributionSample(a.hazard_ratio, a.n_simulations, a.random_state)
CausalSamples(a) ==
    IF a.apply_confounding
    THEN ConfoundingPriorSample(a.confounding_prior, a.n_simulations, a.random_state)
    ELSE [i \in 1..a.n_simulations |-> Scale]

\* PathwayHRs(cvd=exp(log_hr * 1.3), cancer=exp(log_hr * 0.8), other=exp(log_hr * 0.6))
SampledPathwayHRs(adjusted_hr) ==
    LET log_hr == Log(adjusted_hr)
    IN  PathwayHRs(Exp(FMul(log_hr, 1300000)), Exp(FMul(log_hr, 800000)),
                   Exp(FMul(log_hr, 600000)))

\* mutant: the degenerate result reports no chance of a gain
ZeroSimulationResult_ProbZero(a) ==
    [ median |-> 0, mean |-> 0, std |-> 0, ci95 |-> <<0, 0>>, ci50 |-> <<0, 0>>,
      prob_positive |-> 0, prob_more_than_one_year |-> 0,
      cvd_contribution |-> 0, cancer_contribution |-> 0, other_contribution |-> 0,
      life_years_gained |-> 0, causal_fraction_mean |-> None,
      n_simulations |-> a.n_simulations, discount_rate |-> a.discount_rate ]

\* the SimulationResult returned when intervention.mortality is None
ZeroSimulationResult(a) ==
    [ median |-> 0, mean |-> 0, std |-> 0, ci95 |-> <<0, 0>>, ci50 |-> <<0, 0>>,
      prob_positive |-> 500000, prob_more_than_one_year |-> 0,
      cvd_contribution |-> 0, cancer_contribution |-> 0, other_contribution |-> 0,
      life_years_gained |-> 0, causal_fraction_mean |-> None,
      n_simulations |-> a.n_simulations, discount_rate |-> a.discount_rate ]

\* the SimulationResult built from the LifecycleResults res of the loop;
\* causal_fraction_ci is scipy's beta.ppf of the prior and is left out
SimulationResult(res, a) ==
    LET n == a.n_simulations
        qaly_gains == [i \in 1..n |-> res[i].qaly_gain]
        life_years_gained == [i \in 1..n |-> res[i].life_years_gained]
        contributions(p) == [i \in 1..n |-> res[i].pathway_contributions[p]]
    IN  [ median |-> Median(qaly_gains), mean |-> Mean(qaly_gains), std |-> Std(qaly_gains),
          ci95 |-> <<Percentile(qaly_gains, 2500000), Percentile(qaly_gains, 97500000)>>,
          ci50 |-> <<Percentile(qaly_gains, 25000000), Percentile(qaly_gains, 75000000)>>,
          prob_positive |-> ProbPositive(qaly_gains),
          prob_more_than_one_year |->
              ProbPositive([i \in 1..n |-> qaly_gains[i] - Scale]),
          cvd_contribution |-> Median(contributions("cvd")),
          cancer_contribution |-> Median(contributions("cancer")),
          other_contribution |-> Median(contributions("other")),
          life_years_gained |-> Median(life_years_gained),
          causal_fraction_mean |->
              IF a.apply_confounding THEN PriorMean(a.confounding_prior) ELSE None,
          n_simulations |-> n, discount_rate |-> a.discount_rate ]

\* ------------------------------------------------------------------------
\* bayesian.py and precompute.py: what importing the modules leaves behind
\* ------------------------------------------------------------------------
\* mutant: bayesian.py imports pymc and arviz outside a try block
ImportBayesian_Unguarded(pymc, arviz) ==
    [raises |-> ~(pymc /\ arviz), HAS_PYMC |-> pymc /\ arviz]

\* bayesian.py 11-19: "import pymc; import arviz" inside try / except
\* ImportError; the module itself is imported either way
ImportBayesian(pymc, arviz) ==
    [raises |-> FALSE, HAS_PYMC |-> pymc /\ arviz]

\* precompute.py 19-24: HAS_BAYESIAN tells whether "from .bayesian import
\* run_mcmc, summarize_posterior" raised ImportError
ImportPrecompute(pymc, arviz) ==
    LET bayesian == ImportBayesian(pymc, arviz)
    IN  [ imported |-> TRUE, pymc |-> pymc, arviz |-> arviz,
          HAS_PYMC |-> bayesian.HAS_PYMC, HAS_BAYESIAN |-> ~bayesian.raises ]

NotImported ==
    [imported |-> FALSE, pymc |-> FALSE, arviz |-> FALSE, HAS_PYMC |-> FALSE,
     HAS_BAYESIAN |-> FALSE]

\* an exception leaving a call
Raised(exception) == [raised |-> exception]

\* check_pymc, then the test of intervention.mortality: the exception run_mcmc
\* raises before it builds the PyMC model, or "<None>"
RunMcmcRaises(has_pymc, hazard_ratio) ==
    IF ~has_pymc THEN "ImportError"
    ELSE IF hazard_ratio.type = "none" THEN "ValueError"
    ELSE "<None>"

NoPrecompute == [active |-> FALSE, args |-> <<>>, todo |-> <<>>, results |-> <<>>]

\* ------------------------------------------------------------------------
\* combination.py
\* ------------------------------------------------------------------------
\* OVERLAP_MATRIX, keyed by (already applied, being added)
OVERLAP_MATRIX ==
    ( <<"walking_30min_daily", "daily_exercise_moderate">> :> 400000 ) @@
    ( <<"daily_exercise_moderate", "walking_30min_daily">> :> 400000 ) @@
    ( <<"walking_30min_daily", "strength_training">> :> 800000 ) @@
    ( <<"strength_training", "walking_30min_daily">> :> 800000 ) @@
    ( <<"daily_exercise_moderate", "strength_training">> :> 700000 ) @@
    ( <<"strength_training", "daily_exercise_moderate">> :> 700000 ) @@
    ( <<"mediterranean_diet", "fish_oil_supplement">> :> 500000 ) @@
    ( <<"fish_oil_supplement", "mediterranean_diet">> :> 500000 ) @@
    ( <<"meditation_daily", "sleep_8_hours">> :> 800000 ) @@
    ( <<"sleep_8_hours", "meditation_daily">> :> 800000 ) @@
    ( <<"daily_exercise_moderate", "sleep_8_hours">> :> 850000 ) @@
    ( <<"sleep_8_hours", "daily_exercise_moderate">> :> 850000 ) @@
    ( <<"walking_30min_daily", "sleep_8_hours">> :> 900000 ) @@
    ( <<"sleep_8_hours", "walking_30min_daily">> :> 900000 )

\* OVERLAP_MATRIX.get((intervention_a, intervention_b), 1.0)
get_overlap_factor(intervention_a, intervention_b) ==
    IF <<intervention_a, intervention_b>> \in DOMAIN OVERLAP_MATRIX
    THEN OVERLAP_MATRIX[<<intervention_a, intervention_b>>]
    ELSE Scale

\* mutant: the decay has no floor
get_diminishing_returns_factor_NoFloor(n_interventions) ==
    IF n_interventions <= 1 THEN Scale ELSE Pow(950000, n_interventions - 1)

\* 1.0 up to one intervention, else max(0.95 ** (n_interventions - 1), 0.80)
get_diminishing_returns_factor(n_interventions) ==
    IF n_interventions <= 1 THEN Scale
    ELSE Max(Pow(950000, n_interventions - 1), 800000)

\* cumulative_overlap of intervention_ids[i]: the product of its overlap
\* factors with the j earliest ids
RECURSIVE CumulativeOverlap(_, _, _)
CumulativeOverlap(intervention_ids, i, j) ==
    IF j = 0 THEN Scale
    ELSE FMul(CumulativeOverlap(intervention_ids, i, j - 1),
              get_overlap_factor(intervention_ids[j], intervention_ids[i]))

\* total_qaly after the first i ids of the loop
RECURSIVE OverlappedSum(_, _, _)
OverlappedSum(single_qalys, intervention_ids, i) ==
    IF i = 0 THEN 0
    ELSE LET qaly == single_qalys[intervention_ids[i]]
         IN  OverlappedSum(single_qalys, intervention_ids, i - 1)
             + (IF i > 1 THEN FMul(qaly, CumulativeOverlap(intervention_ids, i, i - 1))
                ELSE qaly)

\* mutant: the stacking penalty is not applied
estimate_combined_qaly_from_singles_NoPenalty(single_qalys, intervention_ids) ==
    OverlappedSum(single_qalys, intervention_ids, Len(intervention_ids))

\* estimate_combined_qaly_from_singles with apply_overlap and
\* apply_diminishing_returns at their defaults, for ids of the table
estimate_combined_qaly_from_singles(single_qalys, intervention_ids) ==
    IF intervention_ids = <<>> THEN 0
    ELSE IF Len(intervention_ids) = 1 THEN single_qalys[intervention_ids[1]]
    ELSE FMul(OverlappedSum(single_qalys, intervention_ids, Len(intervention_ids)),
              get_diminishing_returns_factor(Len(intervention_ids)))

NoPortfolio ==
    [ single_qalys |-> <<>>, available |-> {}, selected |-> <<>>, portfolio_path |-> <<>>,
      step |-> 0, steps |-> 0 ]

\* ------------------------------------------------------------------------
\* State
\* ------------------------------------------------------------------------
VARIABLES
    pc,                   \* "idle", "loop", "done" or "raised"
    fn,                   \* the entry point that was called
    args,                 \* its arguments
    rng,                  \* the generator it draws from
    state,                \* HealthState of the lifetime being simulated
    year,                 \* loop index of the next iteration
    qalys,
    life_years,
    conditions_acquired,
    quality,              \* quality weight of the latest iteration
    mortality,            \* death probability of the latest iteration
    year_start,           \* HealthState at the start of the latest iteration
    caller,               \* the caller's initial_state object as it is now
    condition_draws,      \* simulate_lifetime_paired: pre-generated draws
    mortality_draws,
    arm,                  \* simulate_lifetime_paired: index into [1.0, intervention_hr]
    results,              \* the MarkovResults returned so far
    frailty,              \* simulate_with_state_uncertainty: this lifetime's multiplier
    setup_rng,            \* the generator as this lifetime's set-up began
    qalys_list,
    life_years_list,
    output,               \* the dict the latest call returned
    history,              \* [args, output] of the calls completed before it
    model,                \* the LifecycleModel that was constructed
    baselines,            \* the module global _PRECOMPUTED_BASELINES
    category_priors,      \* the module's table CATEGORY_PRIORS
    calc,                 \* the locals of LifecycleModel.calculate
    result,               \* the LifecycleResult it returned
    lifecycle_results,    \* the results whose fields fill the arrays of simulate_qaly
    modules,              \* HAS_PYMC of bayesian.py and HAS_BAYESIAN of precompute.py
    precompute,           \* the locals of precompute_intervention
    portfolio             \* the locals of find_optimal_portfolio_from_qalys

vars == <<pc, fn, args, rng, state, year, qalys, life_years, conditions_acquired,
          quality, mortality, year_start, caller, condition_draws, mortality_draws, arm, results,
          frailty, setup_rng, qalys_list, life_years_list, output, history,
          model, baselines, category_priors, calc, result, lifecycle_results,
          modules, precompute, portfolio>>

lifetime == <<state, year, qalys, life_years, conditions_acquired, quality, mortality,
              year_start, caller>>
paired == <<condition_draws, mortality_draws, arm>>
uncertainty == <<frailty, setup_rng, qalys_list, life_years_list, output, history>>
packages == <<modules, precompute>>
shared == <<category_priors, lifecycle_results, packages, portfolio>>
lifecycle == <<model, baselines, calc, result, shared>>
simulator == <<args, rng, lifetime, paired, results, uncertainty, shared>>

\* ------------------------------------------------------------------------
\* Inputs
\* ------------------------------------------------------------------------
StartAges == {40, 62, 97, 98, 99, 100, 101}
HazardRatios == {500000, Scale, 4000000}
DiscountRates == {0, 30000}

\* known_state dicts: condition -> bool
NoKnownState == [c \in {} |-> FALSE]
AllKnownFalse == [c \in Conditions |-> FALSE]
KnownStates ==
    { NoKnownState,
      [c \in {"diabetes"} |-> FALSE],
      [c \in {"diabetes", "hypertension"} |-> c = "hypertension"],
      AllKnownFalse }
MaxSimulations == 3
SimulationCounts == 1..MaxSimulations
MaxCalls == 2
UncertaintyAges == {98, 99, 100, 101}

\* Optional[HealthState]: is_none marks None
OptionalState(is_none, alive, has) == [is_none |-> is_none] @@ HealthState(alive, has)
InitialStates ==
    { OptionalState(TRUE, TRUE, {}),
      OptionalState(FALSE, TRUE, {"stroke"}),
      OptionalState(FALSE, TRUE, Conditions),
      OptionalState(FALSE, FALSE, {"diabetes"}) }
MonteCarloAges == {98, 99, 101}
MonteCarloStates ==
    { OptionalState(TRUE, TRUE, {}), OptionalState(FALSE, TRUE, {"stroke"}) }

NoArgs ==
    [ start_age |-> 0, sex |-> "male", intervention_hr |-> Scale,
      initial_state |-> OptionalState(TRUE, TRUE, {}), discount_rate |-> 0,
      max_age |-> DEFAULT_MAX_AGE, n_simulations |-> 0, random_state |-> 0,
      known_state |-> NoKnownState ]

NoDraws == [c \in Conditions |-> <<>>]

\* state, qalys, life_years and conditions_acquired as a lifetime starts
StartLifetime(st) ==
    /\ state' = st
    /\ year' = 0
    /\ qalys' = 0
    /\ life_years' = 0
    /\ conditions_acquired' = NoneAcquired
    /\ quality' = 0
    /\ mortality' = 0
    /\ year_start' = st

NoOutput == UncertaintyOutput(<<0>>, <<0>>, 0, NoKnownState)

\* LifecycleModel inputs
LifecycleAges == {0 - 1, 40, 90, 98, 100, 101}
Multipliers == {500000, Scale, 5000000}
PathwayHRsSet ==
    { PathwayHRs(Scale, Scale, Scale),
      PathwayHRs(750000, 870000, 900000),
      PathwayHRs(Scale, Scale, 999000),
      PathwayHRs(1500000, 1500000, 1500000),
      PathwayHRs(1200000, 500000, Scale) }

NoModel ==
    [ start_age |-> 0, sex |-> "male", discount_rate |-> DEFAULT_DISCOUNT_RATE,
      max_age |-> LIFECYCLE_MAX_AGE, use_precomputed |-> TRUE,
      baseline_mortality_multiplier |-> Scale, precomputed_baseline_qalys |-> None,
      file |-> NoFile ]

\* the locals of calculate as its first loop is entered
StartCalc(pathway_hrs, baseline_qalys) ==
    [ pathway_hrs |-> pathway_hrs,
      year |-> 0,
      baseline_qalys |-> baseline_qalys,
      baseline_survival |-> Scale,
      baseline_life_years |-> 0,
      intervention_qalys |-> 0,
      intervention_life_years |-> 0,
      intervention_survival |-> Scale,
      contribution |-> [p \in Pathways |-> 0],
      base_qx |-> 0,
      intervention_qx |-> 0,
      survival_before |-> [baseline |-> Scale, intervention |-> Scale] ]

NoCalc == StartCalc(PathwayHRs(Scale, Scale, Scale), 0)
NoResult == LifecycleResult(NoCalc, DEFAULT_DISCOUNT_RATE)

\* nothing has been called yet
Idle ==
    /\ pc = "idle"
    /\ fn = "none"
    /\ rng = default_rng(0)
    /\ state = Healthy
    /\ year = 0
    /\ qalys = 0
    /\ life_years = 0
    /\ conditions_acquired = NoneAcquired
    /\ quality = 0
    /\ mortality = 0
    /\ year_start = Healthy
    /\ caller = NoArgs.initial_state
    /\ condition_draws = NoDraws
    /\ mortality_draws = <<>>
    /\ arm = 0
    /\ results = <<>>
    /\ frailty = Scale
    /\ setup_rng = default_rng(0)
    /\ qalys_list = <<>>
    /\ life_years_list = <<>>
    /\ output = NoOutput
    /\ history = <<>>
    /\ model = NoModel
    /\ baselines = NotLoaded
    /\ category_priors = CATEGORY_PRIORS
    /\ lifecycle_results = <<>>
    /\ modules = NotImported
    /\ precompute = NoPrecompute
    /\ portfolio = NoPortfolio
    /\ calc = NoCalc
    /\ result = NoResult

Init == args = NoArgs /\ Idle

\* mutant: the break on death is missing
LoopContinues_NoBreak(st, y, n_years) == y < n_years

\* for year in range(n_years): if not state.alive: break
LoopContinues(st, y, n_years) == y < n_years /\ st.alive

\* mutant: state is initial_state itself, so every write reaches the caller's object
CallerAfterWrite_Aliased(initial_state, st) ==
    IF initial_state.is_none THEN initial_state ELSE [is_none |-> FALSE] @@ st

\* state = HealthState(alive=..., diabetes=initial_state.diabetes, ...) is a new
\* object: setattr(state, cond, True) and state.alive = False leave initial_state
\* as it was
CallerAfterWrite(initial_state, st) == initial_state

Age == args.start_age + year
NYears == args.max_age - args.start_age

\* the effect of one loop iteration on the lifetime's variables
ApplyYear(t) ==
    /\ qalys' = qalys + t.qaly
    /\ life_years' = life_years + 1
    /\ year' = year + 1
    /\ state' = t.state
    /\ conditions_acquired' = t.conditions_acquired
    /\ quality' = t.quality
    /\ mortality' = t.mortality
    /\ year_start' = state
    /\ caller' = CallerAfterWrite(caller, t.state)

\* ------------------------------------------------------------------------
\* simulate_lifetime_markov
\* ------------------------------------------------------------------------
\* HealthState() or HealthState(alive=initial_state.alive, <the initial conditions>)
MarkovState(init) ==
    IF init.is_none THEN Healthy ELSE HealthState(init.alive, Present(init))

\* simulate_lifetime_markov as a function of the outcomes of its draws: the
\* draw for condition c in loop year y yields cdraws[c][y + 1], the mortality
\* draw of that year yields mdraws[y + 1]
MarkovLifetimeYear(s, start_age, sex, hr, discount_rate, n_years, cdraws, mdraws) ==
    IF ~LoopContinues(s.state, s.year, n_years) THEN s
    ELSE LET t == YearTransition(s.state, s.conditions_acquired, start_age + s.year, sex,
                                 hr, Discount(discount_rate, s.year),
                                 [c \in Conditions |-> cdraws[c][s.year + 1]],
                                 mdraws[s.year + 1])
         IN  [ state |-> t.state, year |-> s.year + 1, qalys |-> s.qalys + t.qaly,
               life_years |-> s.life_years + 1,
               conditions_acquired |-> t.conditions_acquired ]

\* n iterations, evaluated by halves
RECURSIVE MarkovLifetimeLoop(_, _, _, _, _, _, _, _, _)
MarkovLifetimeLoop(s, start_age, sex, hr, discount_rate, n_years, cdraws, mdraws, n) ==
    IF n <= 0 THEN s
    ELSE IF n = 1
    THEN MarkovLifetimeYear(s, start_age, sex, hr, discount_rate, n_years, cdraws, mdraws)
    ELSE MarkovLifetimeLoop(
             MarkovLifetimeLoop(s, start_age, sex, hr, discount_rate, n_years,
                                cdraws, mdraws, n \div 2),
             start_age, sex, hr, discount_rate, n_years, cdraws, mdraws, n - (n \div 2))

MarkovLifetime(init, start_age, sex, hr, discount_rate, max_age, cdraws, mdraws) ==
    LET n_years == max_age - start_age
        s == MarkovLifetimeLoop([state |-> MarkovState(init), year |-> 0, qalys |-> 0,
                                 life_years |-> 0, conditions_acquired |-> NoneAcquired],
                                start_age, sex, hr, discount_rate, n_years,
                                cdraws, mdraws, n_years)
    IN  MarkovResult(s.qalys, s.life_years, start_age, s.conditions_acquired)

CallMarkov ==
    /\ pc = "idle"
    /\ \E start_age \in StartAges, sex \in Sexes, hr \in HazardRatios,
          init \in InitialStates, dr \in DiscountRates, seed \in Seeds :
        /\ fn' = "markov"
        /\ args' = [NoArgs EXCEPT !.start_age = start_age, !.sex = sex,
                                  !.intervention_hr = hr, !.initial_state = init,
                                  !.discount_rate = dr]
        /\ rng' = default_rng(seed)
        /\ StartLifetime(MarkovState(init))
        /\ caller' = init
    /\ pc' = "loop"
    /\ UNCHANGED <<paired, results, uncertainty, lifecycle>>

MarkovYear ==
    /\ pc = "loop" /\ fn = "markov"
    /\ LoopContinues(state, year, NYears)
    /\ ApplyYear(YearTransition(state, conditions_acquired, Age, args.sex,
                                args.intervention_hr,
                                Discount(args.discount_rate, year),
                                LazyConditionDraws(state, rng),
                                random(Advance(rng, AbsentCount(state)))))
    /\ rng' = Advance(rng, AbsentCount(state) + 1)
    /\ UNCHANGED <<pc, fn, args, paired, results, uncertainty, lifecycle>>

MarkovReturn ==
    /\ pc = "loop" /\ fn = "markov"
    /\ ~LoopContinues(state, year, NYears)
    /\ results' = <<MarkovResult(qalys, life_years, args.start_age, conditions_acquired)>>
    /\ pc' = "done"
    /\ UNCHANGED <<fn, args, rng, lifetime, paired, uncertainty, lifecycle>>

\* ------------------------------------------------------------------------
\* simulate_lifetime_paired
\* ------------------------------------------------------------------------
\* mutant: the arms run in the order [intervention_hr, 1.0]
ArmHr_Swapped(a, intervention_hr) == IF a = 1 THEN intervention_hr ELSE Scale

\* for hr in [1.0, intervention_hr]
ArmHr(a, intervention_hr) == IF a = 1 THEN Scale ELSE intervention_hr

\* HealthState(alive=True, <the initial conditions>) or HealthState()
ArmState(init) == IF init.is_none THEN Healthy ELSE HealthState(TRUE, Present(init))

\* mutant: each arm reads its own draws
PairedDraw_PerArm(draws, a, y) == draws[((y + a - 1) % Len(draws)) + 1]

\* condition_draws[cond][year], mortality_draws[year]: the same for both arms
PairedDraw(draws, a, y) == draws[y + 1]

\* the head of simulate_lifetime_paired, drawing from generator r
EnterPaired(start_age, init, r) ==
    LET n_years == DEFAULT_MAX_AGE - start_age
        index(c) == CHOOSE j \in 1..Len(ConditionList) : ConditionList[j] = c
    IN  IF n_years < 0
        THEN \* rng.random(n_years) raises ValueError
             /\ pc' = "raised"
             /\ rng' = r
             /\ UNCHANGED <<lifetime, paired>>
        ELSE /\ pc' = "loop"
             /\ condition_draws' =
                  [c \in Conditions |->
                     random_array(Advance(r, (index(c) - 1) * n_years), n_years)]
             /\ mortality_draws' =
                  random_array(Advance(r, Len(ConditionList) * n_years), n_years)
             /\ rng' = Advance(r, (Len(ConditionList) + 1) * n_years)
             /\ arm' = 1
             /\ StartLifetime(ArmState(init))
             /\ caller' = init

CallPaired ==
    /\ pc = "idle"
    /\ \E start_age \in StartAges, sex \in Sexes, hr \in HazardRatios,
          init \in InitialStates, dr \in DiscountRates, seed \in Seeds :
        /\ fn' = "paired"
        /\ args' = [NoArgs EXCEPT !.start_age = start_age, !.sex = sex,
                                  !.intervention_hr = hr, !.initial_state = init,
                                  !.discount_rate = dr]
        /\ EnterPaired(start_age, init, default_rng(seed))
    /\ UNCHANGED <<results, uncertainty, lifecycle>>

\* simulate_lifetime_paired runs on its own or inside simulate_markov_monte_carlo
InPaired == fn \in {"paired", "monte_carlo"}

PairedYear ==
    /\ pc = "loop" /\ InPaired
    /\ LoopContinues(state, year, NYears)
    /\ ApplyYear(YearTransition(state, conditions_acquired, Age, args.sex,
                                ArmHr(arm, args.intervention_hr),
                                Discount(args.discount_rate, year),
                                [c \in Conditions |-> PairedDraw(condition_draws[c], arm, year)],
                                PairedDraw(mortality_draws, arm, year)))
    /\ UNCHANGED <<pc, fn, args, rng, paired, results, uncertainty, lifecycle>>

\* results.append(MarkovResult(...)), then the next arm or the return
PairedAppend ==
    /\ pc = "loop" /\ InPaired
    /\ ~LoopContinues(state, year, NYears)
    /\ results' = Append(results,
                         MarkovResult(qalys, life_years, args.start_age, conditions_acquired))
    /\ IF arm = 1
       THEN /\ arm' = 2
            /\ StartLifetime(ArmState(caller))
            /\ caller' = caller
            /\ pc' = "loop"
       ELSE /\ pc' = IF fn = "paired" THEN "done" ELSE "setup"
            /\ UNCHANGED <<lifetime, arm>>
    /\ UNCHANGED <<fn, args, rng, condition_draws, mortality_draws, uncertainty, lifecycle>>

\* ------------------------------------------------------------------------
\* simulate_markov_monte_carlo
\* ------------------------------------------------------------------------
\* rng = np.random.default_rng(random_state); the four lists start empty
EnterMonteCarlo(a) ==
    /\ fn' = "monte_carlo"
    /\ args' = a
    /\ rng' = EntryGenerator(a.random_state, rng)
    /\ results' = <<>>
    /\ condition_draws' = NoDraws
    /\ mortality_draws' = <<>>
    /\ arm' = 0
    /\ StartLifetime(Healthy)
    /\ caller' = a.initial_state
    /\ pc' = "setup"
    /\ UNCHANGED <<lifecycle, frailty, setup_rng, qalys_list, life_years_list>>

CallMonteCarlo ==
    /\ pc = "idle"
    /\ \E start_age \in MonteCarloAges, sex \in Sexes, hr \in HazardRatios,
          n \in SimulationCounts, seed \in Seeds, init \in MonteCarloStates :
        EnterMonteCarlo([NoArgs EXCEPT !.start_age = start_age, !.sex = sex,
                                       !.intervention_hr = hr, !.n_simulations = n,
                                       !.discount_rate = 30000, !.random_state = seed,
                                       !.initial_state = init])
    /\ UNCHANGED <<output, history>>

\* a later call with the same arguments, or with no intervention
RecallMonteCarlo ==
    /\ pc = "done" /\ fn = "monte_carlo"
    /\ Len(history) + 1 < MaxCalls
    /\ \E hr \in {args.intervention_hr, Scale} :
          EnterMonteCarlo([args EXCEPT !.intervention_hr = hr])
    /\ history' = Append(history, [args |-> args, output |-> output])
    /\ UNCHANGED output

\* "for _ in range(n_simulations)": the call of simulate_lifetime_paired
MonteCarloSetup ==
    /\ pc = "setup" /\ fn = "monte_carlo"
    /\ Len(results) < 2 * args.n_simulations
    /\ EnterPaired(args.start_age, caller, rng)
    /\ UNCHANGED <<fn, args, results, uncertainty, lifecycle>>

MonteCarloReturn ==
    /\ pc = "setup" /\ fn = "monte_carlo"
    /\ Len(results) >= 2 * args.n_simulations
    /\ output' = MonteCarloOutput(results, args.n_simulations)
    /\ pc' = "done"
    /\ UNCHANGED <<fn, args, rng, lifetime, lifecycle, paired, results, frailty, setup_rng,
                   qalys_list, life_years_list, history>>

\* ------------------------------------------------------------------------
\* simulate_with_state_uncertainty
\* ------------------------------------------------------------------------
\* rng = np.random.default_rng(random_state); the lists start empty and the
\* locals of the lifetime loop are not yet bound
EnterUncertainty(a) ==
    /\ fn' = "uncertainty"
    /\ args' = a
    /\ rng' = EntryGenerator(a.random_state, rng)
    /\ setup_rng' = EntryGenerator(a.random_state, rng)
    /\ frailty' = Scale
    /\ qalys_list' = <<>>
    /\ life_years_list' = <<>>
    /\ StartLifetime(Healthy)
    /\ caller' = caller
    /\ pc' = "setup"
    /\ UNCHANGED <<lifecycle, paired, results>>

CallUncertainty ==
    /\ pc = "idle"
    /\ \E start_age \in UncertaintyAges, sex \in Sexes, n \in SimulationCounts,
          seed \in Seeds, known \in KnownStates :
        EnterUncertainty([NoArgs EXCEPT !.start_age = start_age, !.sex = sex,
                                        !.n_simulations = n, !.discount_rate = 30000,
                                        !.random_state = seed, !.known_state = known])
    /\ UNCHANGED <<output, history>>

\* a later call with the same age, sex, sample count and seed
RecallUncertainty ==
    /\ pc = "done" /\ fn = "uncertainty"
    /\ Len(history) + 1 < MaxCalls
    /\ \E known \in KnownStates : EnterUncertainty([args EXCEPT !.known_state = known])
    /\ history' = Append(history, [args |-> args, output |-> output])
    /\ UNCHANGED output

\* the head of "for _ in range(n_simulations)": frailty, then the initial state
UncertaintySetup ==
    /\ pc = "setup" /\ fn = "uncertainty"
    /\ Len(qalys_list) < args.n_simulations
    /\ frailty' = Exp(normal(rng, EffectiveFrailtyStd(args.known_state)))
    /\ StartLifetime(UncertainInitialState(args.known_state, args.start_age, Advance(rng, 1)))
    /\ caller' = caller
    /\ setup_rng' = rng
    /\ rng' = Advance(rng, 1 + Len(UnknownConditions(args.known_state)))
    /\ pc' = "loop"
    /\ UNCHANGED <<fn, args, lifecycle, paired, results, qalys_list, life_years_list, output,
                   history>>

UncertaintyYear ==
    /\ pc = "loop" /\ fn = "uncertainty"
    /\ LoopContinues(state, year, NYears)
    /\ ApplyYear(YearTransition(state, conditions_acquired, Age, args.sex, frailty,
                                Discount(args.discount_rate, year),
                                LazyConditionDraws(state, rng),
                                random(Advance(rng, AbsentCount(state)))))
    /\ rng' = Advance(rng, AbsentCount(state) + 1)
    /\ UNCHANGED <<pc, fn, args, paired, results, uncertainty, lifecycle>>

\* qalys_list.append(qalys); life_years_list.append(life_years)
UncertaintyAppend ==
    /\ pc = "loop" /\ fn = "uncertainty"
    /\ ~LoopContinues(state, year, NYears)
    /\ qalys_list' = Append(qalys_list, qalys)
    /\ life_years_list' = Append(life_years_list, life_years)
    /\ pc' = "setup"
    /\ UNCHANGED <<fn, args, rng, lifetime, lifecycle, paired, results, frailty, setup_rng, output,
                   history>>

UncertaintyReturn ==
    /\ pc = "setup" /\ fn = "uncertainty"
    /\ Len(qalys_list) >= args.n_simulations
    /\ output' = UncertaintyOutput(qalys_list, life_years_list, args.n_simulations,
                                   args.known_state)
    /\ pc' = "done"
    /\ UNCHANGED <<fn, args, rng, lifetime, lifecycle, paired, results, frailty, setup_rng,
                   qalys_list, life_years_list, history>>

\* ------------------------------------------------------------------------
\* LifecycleModel.__init__ and LifecycleModel.calculate
\* ------------------------------------------------------------------------
\* __init__ with the given arguments, where data/baselines.json is file
EnterConstruct(start_age, sex, discount_rate, max_age, use_precomputed, multiplier, file) ==
    /\ model' = [ start_age |-> start_age, sex |-> sex, discount_rate |-> discount_rate,
                  max_age |-> max_age, use_precomputed |-> use_precomputed,
                  baseline_mortality_multiplier |-> multiplier,
                  precomputed_baseline_qalys |->
                      PrecomputedFor(start_age, sex, discount_rate, use_precomputed,
                                     multiplier, baselines, file),
                  file |-> file ]
    /\ baselines' = BaselinesAfter(start_age, discount_rate, use_precomputed, multiplier,
                                   baselines, file)
    /\ fn' = "lifecycle"
    /\ pc' = "constructed"
    /\ UNCHANGED <<calc, result, simulator>>

\* LifecycleModel(...) with max_age at its default
Construct ==
    /\ pc = "idle"
    /\ \E start_age \in LifecycleAges, sex \in Sexes, discount_rate \in DiscountRates,
          use_precomputed \in BOOLEAN, multiplier \in Multipliers, file \in BaselineFiles :
        EnterConstruct(start_age, sex, discount_rate, LIFECYCLE_MAX_AGE, use_precomputed,
                       multiplier, file)

\* LifecycleModel(..., max_age=...)
HorizonAges == {40, 97}
MaxAges == {LIFECYCLE_MAX_AGE, 99, 60}
ConstructWithMaxAge ==
    /\ pc = "idle"
    /\ \E start_age \in HorizonAges, sex \in Sexes, discount_rate \in DiscountRates,
          max_age \in MaxAges, use_precomputed \in BOOLEAN,
          file \in {NoFile, CompleteFile} :
        EnterConstruct(start_age, sex, discount_rate, max_age, use_precomputed, Scale, file)

\* the entry of calculate, up to the head of its first loop
Calculate ==
    /\ pc = "constructed" /\ fn = "lifecycle"
    /\ \E pathway_hrs \in PathwayHRsSet :
        IF model.precomputed_baseline_qalys # None
        THEN /\ calc' = StartCalc(pathway_hrs, model.precomputed_baseline_qalys)
             /\ pc' = "fast"
        ELSE /\ calc' = StartCalc(pathway_hrs, 0)
             /\ pc' = "full"
    /\ UNCHANGED <<fn, model, baselines, result, simulator>>

CurrentAge == model.start_age + calc.year
Horizon == model.max_age - model.start_age

\* the baseline loops run on unless "if baseline_survival < 0.001: break" ended them
BaselineContinues == calc.year < Horizon /\ calc.baseline_survival >= SURVIVAL_FLOOR

\* calculate runs on its own or inside simulate_qaly
InCalculate == fn \in {"lifecycle", "simulate_qaly"}

\* one iteration of the fast path's loop: life years only, mortality as tabulated
FastPathYear ==
    /\ pc = "fast" /\ InCalculate
    /\ BaselineContinues
    /\ LET base_qx == get_mortality_rate(CurrentAge, model.sex)
       IN  calc' = [calc EXCEPT
                      !.year = @ + 1,
                      !.baseline_life_years = @ + calc.baseline_survival,
                      !.baseline_survival = FMul(@, Scale - base_qx),
                      !.base_qx = base_qx,
                      !.survival_before = [@ EXCEPT !.baseline = calc.baseline_survival]]
    /\ UNCHANGED <<pc, fn, model, baselines, result, simulator>>

\* one iteration of the full computation path's loop
FullPathYear ==
    /\ pc = "full" /\ InCalculate
    /\ BaselineContinues
    /\ LET base_qx == AdjustedQx(CurrentAge, model.sex, model.baseline_mortality_multiplier)
           weight == get_quality_weight(CurrentAge)
           discount == Discount(model.discount_rate, calc.year)
           baseline_qaly == FMul(FMul(calc.baseline_survival, weight), discount)
       IN  calc' = [calc EXCEPT
                      !.year = @ + 1,
                      !.baseline_qalys = @ + baseline_qaly,
                      !.baseline_life_years = @ + calc.baseline_survival,
                      !.baseline_survival = FMul(@, Scale - base_qx),
                      !.base_qx = base_qx,
                      !.survival_before = [@ EXCEPT !.baseline = calc.baseline_survival]]
    /\ UNCHANGED <<pc, fn, model, baselines, result, simulator>>

\* lines 346-354: the accumulators and both survivals before the intervention loop
StartIntervention ==
    /\ pc \in {"fast", "full"} /\ InCalculate
    /\ ~BaselineContinues
    /\ calc' = [StartCalc(calc.pathway_hrs, calc.baseline_qalys) EXCEPT
                  !.baseline_life_years = calc.baseline_life_years]
    /\ pc' = "intervention"
    /\ UNCHANGED <<fn, model, baselines, result, simulator>>

\* the loop runs on unless both survivals fell below 0.001
InterventionContinues ==
    /\ calc.year < Horizon
    /\ ~(calc.baseline_survival < SURVIVAL_FLOOR /\ calc.intervention_survival < SURVIVAL_FLOOR)

\* one iteration of the intervention loop
InterventionYear ==
    /\ pc = "intervention" /\ InCalculate
    /\ InterventionContinues
    /\ LET base_qx == AdjustedQx(CurrentAge, model.sex, model.baseline_mortality_multiplier)
           cause_frac == get_cause_fraction(CurrentAge)
           weight == get_quality_weight(CurrentAge)
           discount == Discount(model.discount_rate, calc.year)
           baseline_qaly == FMul(FMul(calc.baseline_survival, weight), discount)
           intervention_qx == InterventionQx(base_qx, cause_frac, calc.pathway_hrs)
           intervention_qaly == FMul(FMul(calc.intervention_survival, weight), discount)
           qaly_diff == intervention_qaly - baseline_qaly
       IN  calc' = [calc EXCEPT
                      !.year = @ + 1,
                      !.intervention_qalys = @ + intervention_qaly,
                      !.intervention_life_years = @ + calc.intervention_survival,
                      !.contribution = Contributions(@, qaly_diff, cause_frac,
                                                     calc.pathway_hrs),
                      !.baseline_survival = FMul(@, Scale - base_qx),
                      !.intervention_survival = FMul(@, Scale - intervention_qx),
                      !.base_qx = base_qx,
                      !.intervention_qx = intervention_qx,
                      !.survival_before = [baseline |-> calc.baseline_survival,
                                           intervention |-> calc.intervention_survival]]
    /\ UNCHANGED <<pc, fn, model, baselines, result, simulator>>

CalculateReturn ==
    /\ pc = "intervention" /\ InCalculate
    /\ ~InterventionContinues
    /\ result' = LifecycleResult(calc, model.discount_rate)
    /\ IF fn = "lifecycle"
       THEN /\ pc' = "done"
            /\ UNCHANGED lifecycle_results
       ELSE \* back in the loop of simulate_qaly, which reads the result's fields
            /\ pc' = "iterate"
            /\ lifecycle_results' =
                   Append(lifecycle_results, LifecycleResult(calc, model.discount_rate))
    /\ UNCHANGED <<fn, model, baselines, calc, args, rng, lifetime, paired, results,
                   uncertainty, category_priors, packages, portfolio>>

NextLifecycle ==
    \/ Construct
    \/ Calculate
    \/ FastPathYear
    \/ FullPathYear
    \/ StartIntervention
    \/ InterventionYear
    \/ CalculateReturn

SpecLifecycle == Init /\ [][NextLifecycle]_vars

\* the same, for models constructed with a max_age of their own
NextMaxAge ==
    \/ ConstructWithMaxAge
    \/ Calculate
    \/ FastPathYear
    \/ FullPathYear
    \/ StartIntervention
    \/ InterventionYear
    \/ CalculateReturn

SpecMaxAge == Init /\ [][NextMaxAge]_vars

\* ------------------------------------------------------------------------
\* simulate.py: simulate_qaly
\* ------------------------------------------------------------------------
\* intervention.mortality.hazard_ratio, or NoMortality for mortality = None
NoMortality == [type |-> "none"]
HazardRatioDistributions ==
    {NoMortality, PointDistribution(800000), LogNormal(0 - 250000, 100000)}
SimulateAges == {98, 99}
\* with mortality = None no year is simulated: any age and sample count will do
NullAges == {0 - 1, 40, 101}
AgesFor(hazard_ratio) ==
    IF hazard_ratio = NoMortality THEN SimulateAges \cup NullAges ELSE SimulateAges
CountsFor(hazard_ratio) ==
    IF hazard_ratio = NoMortality THEN SimulationCounts \cup {0} ELSE SimulationCounts

\* where simulate_qaly returns to: its caller in precompute_intervention, or
\* the end of the call
ReturnPc == IF precompute.active THEN "collect" ELSE "done"

\* lines 207-254: the generator, the samples (read off HrSamples and
\* CausalSamples), the LifecycleModel with its defaults, and the empty arrays
EnterSimulateQaly(a) ==
    /\ fn' = "simulate_qaly"
    /\ args' = a
    /\ rng' = EntryGenerator(a.random_state, rng)
    /\ IF a.hazard_ratio = NoMortality
       THEN /\ output' = ZeroSimulationResult(a)
            /\ pc' = ReturnPc
            /\ UNCHANGED <<model, baselines, lifecycle_results>>
       ELSE /\ model' = [ start_age |-> a.start_age, sex |-> a.sex,
                          discount_rate |-> a.discount_rate,
                          max_age |-> a.max_age, use_precomputed |-> TRUE,
                          baseline_mortality_multiplier |-> Scale,
                          precomputed_baseline_qalys |->
                              PrecomputedFor(a.start_age, a.sex, a.discount_rate, TRUE, Scale,
                                             baselines, a.file),
                          file |-> a.file ]
            /\ baselines' = BaselinesAfter(a.start_age, a.discount_rate, TRUE, Scale, baselines,
                                           a.file)
            /\ lifecycle_results' = <<>>
            /\ pc' = "iterate"
            /\ UNCHANGED output
    /\ UNCHANGED <<lifetime, paired, results, frailty, setup_rng, qalys_list,
                   life_years_list, calc, result, category_priors,
                   packages, portfolio>>

\* age is handed on as the model's start_age, and max_age is the model's default
CallSimulateQaly ==
    /\ pc = "idle"
    /\ \E hazard_ratio \in HazardRatioDistributions, sex \in Sexes,
          apply_confounding \in BOOLEAN, seed \in Seeds, file \in BaselineFiles :
       \E age \in AgesFor(hazard_ratio), n \in CountsFor(hazard_ratio) :
        EnterSimulateQaly([ hazard_ratio |-> hazard_ratio,
                            confounding_prior |-> CATEGORY_PRIORS.exercise,
                            start_age |-> age, max_age |-> LIFECYCLE_MAX_AGE,
                            sex |-> sex, n_simulations |-> n,
                            discount_rate |-> DEFAULT_DISCOUNT_RATE,
                            apply_confounding |-> apply_confounding,
                            random_state |-> seed, file |-> file ])
    /\ UNCHANGED history

\* a later call with the same arguments, or with the other apply_confounding
RecallSimulateQaly ==
    /\ pc = "done" /\ fn = "simulate_qaly"
    /\ Len(history) + 1 < MaxCalls
    /\ \E apply_confounding \in BOOLEAN :
          EnterSimulateQaly([args EXCEPT !.apply_confounding = apply_confounding])
    /\ history' = Append(history, [args |-> args, output |-> output])

\* "for i in range(n_simulations)": adjust_hr, the pathway HRs, and the entry
\* of lifecycle.calculate up to the head of its first loop
SimulateQalyIterate ==
    /\ pc = "iterate" /\ fn = "simulate_qaly"
    /\ Len(lifecycle_results) < args.n_simulations
    /\ LET i == Len(lifecycle_results) + 1
           adjusted_hr == adjust_hr(HrSamples(args)[i], CausalSamples(args)[i])
           pathway_hrs == SampledPathwayHRs(adjusted_hr)
       IN  IF model.precomputed_baseline_qalys # None
           THEN /\ calc' = StartCalc(pathway_hrs, model.precomputed_baseline_qalys)
                /\ pc' = "fast"
           ELSE /\ calc' = StartCalc(pathway_hrs, 0)
                /\ pc' = "full"
    /\ UNCHANGED <<fn, model, baselines, result, simulator>>

SimulateQalyReturn ==
    /\ pc = "iterate" /\ fn = "simulate_qaly"
    /\ Len(lifecycle_results) >= args.n_simulations
    /\ output' = SimulationResult(lifecycle_results, args)
    /\ pc' = ReturnPc
    /\ UNCHANGED <<fn, args, rng, lifetime, lifecycle, paired, results, frailty, setup_rng,
                   qalys_list, life_years_list, history>>

\* ------------------------------------------------------------------------
\* simulate.py: simulate_qaly_profile and simulate_qaly_profile_vectorized,
\* called with an intervention that declares no mortality effect
\* ------------------------------------------------------------------------
NullProfiles ==
    { Profile(age, sex, "obese", "current", diabetes, FALSE, "sedentary") :
        age \in SimulateAges \cup NullAges, sex \in Sexes, diabetes \in BOOLEAN }

\* lines 59-67 and 327-345: the generator is made, and "if
\* intervention.mortality is None" returns before the profile is read
EnterNullProfile(name, a) ==
    /\ fn' = name
    /\ args' = a
    /\ rng' = EntryGenerator(a.random_state, rng)
    /\ output' = ZeroSimulationResult(a)
    /\ pc' = "done"
    /\ UNCHANGED <<lifetime, paired, results, frailty, setup_rng, qalys_list,
                   life_years_list, history, lifecycle>>

NullProfileArgs ==
    { [ hazard_ratio |-> NoMortality, profile |-> p, start_age |-> p.age,
        max_age |-> LIFECYCLE_MAX_AGE, n_simulations |-> n,
        discount_rate |-> DEFAULT_DISCOUNT_RATE, apply_confounding |-> c,
        random_state |-> seed ] :
        p \in NullProfiles, n \in CountsFor(NoMortality), c \in BOOLEAN, seed \in Seeds }

CallSimulateQalyProfile ==
    /\ pc = "idle"
    /\ \E a \in NullProfileArgs : EnterNullProfile("simulate_qaly_profile", a)

CallSimulateQalyProfileVectorized ==
    /\ pc = "idle"
    /\ \E a \in NullProfileArgs : EnterNullProfile("simulate_qaly_profile_vectorized", a)

\* the entry points of markov.py and simulate_qaly
Next ==
    \/ CallMarkov
    \/ MarkovYear
    \/ MarkovReturn
    \/ CallPaired
    \/ PairedYear
    \/ PairedAppend
    \/ CallMonteCarlo
    \/ RecallMonteCarlo
    \/ MonteCarloSetup
    \/ MonteCarloReturn
    \/ CallUncertainty
    \/ RecallUncertainty
    \/ UncertaintySetup
    \/ UncertaintyYear
    \/ UncertaintyAppend
    \/ UncertaintyReturn
    \/ CallSimulateQaly
    \/ RecallSimulateQaly
    \/ SimulateQalyIterate
    \/ SimulateQalyReturn
    \/ CallSimulateQalyProfile
    \/ CallSimulateQalyProfileVectorized
    \/ FastPathYear
    \/ FullPathYear
    \/ StartIntervention
    \/ InterventionYear
    \/ CalculateReturn

Spec == Init /\ [][Next]_vars

\* ------------------------------------------------------------------------
\* bayesian.py: run_mcmc; precompute.py: precompute_intervention
\* ------------------------------------------------------------------------
\* "import optiqal.precompute" where pymc and arviz are or are not installed
ImportModules ==
    /\ pc = "idle" /\ ~modules.imported
    /\ \E pymc \in BOOLEAN, arviz \in BOOLEAN : modules' = ImportPrecompute(pymc, arviz)
    /\ UNCHANGED <<pc, fn, args, rng, lifetime, paired, results, uncertainty, model,
                   baselines, calc, result, category_priors, lifecycle_results, precompute,
                   portfolio>>

\* what pm.sample and _add_qaly_calculations hand back is the sampler's
\* business: any of these posteriors
Traces ==
    { [ qaly_gain |-> q, causal_fraction |-> <<150000, 250000>>,
        life_years_gained |-> <<q[1] * 2, q[2] * 2>> ] : q \in {<<0, 0>>, <<40000, 90000>>} }

CallRunMcmc ==
    /\ pc = "idle" /\ modules.imported
    /\ \E hazard_ratio \in HazardRatioDistributions, age \in SimulateAges, sex \in Sexes,
          seed \in Seeds :
        /\ args' = [ hazard_ratio |-> hazard_ratio, age |-> age, sex |-> sex,
                     random_seed |-> seed ]
        /\ IF RunMcmcRaises(modules.HAS_PYMC, hazard_ratio) # "<None>"
           THEN output' = Raised(RunMcmcRaises(modules.HAS_PYMC, hazard_ratio))
           ELSE \E trace \in Traces : output' = trace
    /\ fn' = "run_mcmc"
    /\ pc' = "done"
    /\ UNCHANGED <<rng, lifetime, paired, results, frailty, setup_rng, qalys_list,
                   life_years_list, history, lifecycle>>

\* the (age, sex) pairs in the order "for age in ages: for sex in sexes" visits them
RECURSIVE Grid(_, _)
Grid(ages, sexes) ==
    IF ages = <<>> THEN <<>>
    ELSE [i \in 1..Len(sexes) |-> <<Head(ages), sexes[i]>>] \o Grid(Tail(ages), sexes)

AgeLists == {<<98>>, <<99, 98>>}
SexLists == {<<"female">>, <<"male", "female">>}
SampleCounts == 1..(MaxSimulations - 1)

\* the entry of precompute_intervention: results = {} and all_qaly_gains = []
CallPrecomputeIntervention ==
    /\ pc = "idle" /\ modules.imported
    /\ \E hazard_ratio \in HazardRatioDistributions, ages \in AgeLists, sexes \in SexLists,
          use_mcmc \in BOOLEAN, n_samples \in SampleCounts, seed \in Seeds,
          file \in {NoFile, CompleteFile} :
        precompute' = [ active |-> TRUE,
                        args |-> [ hazard_ratio |-> hazard_ratio,
                                   confounding_prior |-> CATEGORY_PRIORS.exercise,
                                   ages |-> ages, sexes |-> sexes, use_mcmc |-> use_mcmc,
                                   n_samples |-> n_samples, chains |-> 4,
                                   discount_rate |-> DEFAULT_DISCOUNT_RATE,
                                   random_seed |-> seed, file |-> file ],
                        todo |-> Grid(ages, sexes), results |-> <<>> ]
    /\ fn' = "precompute_intervention"
    /\ pc' = "precompute"
    /\ UNCHANGED <<args, rng, lifetime, paired, results, uncertainty, model, baselines,
                   calc, result, category_priors, lifecycle_results, modules, portfolio>>

\* the PrecomputedResult built from a trace; the causal-fraction interval is
\* left out, as in SimulationResult
McmcResult(trace, age, sex, a) ==
    [ age |-> age, sex |-> sex,
      qaly_median |-> Median(trace.qaly_gain), qaly_mean |-> Mean(trace.qaly_gain),
      qaly_ci95_low |-> Percentile(trace.qaly_gain, 2500000),
      qaly_ci95_high |-> Percentile(trace.qaly_gain, 97500000),
      cvd_contribution |-> 0, cancer_contribution |-> 0, other_contribution |-> 0,
      life_years_gained |-> Median(trace.life_years_gained),
      causal_fraction_mean |-> Mean(trace.causal_fraction),
      n_samples |-> a.n_samples * a.chains, discount_rate |-> a.discount_rate,
      method |-> "mcmc" ]

\* the PrecomputedResult built from the SimulationResult of simulate_qaly
MonteCarloResult(sim_result, age, sex, a) ==
    [ age |-> age, sex |-> sex,
      qaly_median |-> sim_result.median, qaly_mean |-> sim_result.mean,
      qaly_ci95_low |-> sim_result.ci95[1], qaly_ci95_high |-> sim_result.ci95[2],
      cvd_contribution |-> sim_result.cvd_contribution,
      cancer_contribution |-> sim_result.cancer_contribution,
      other_contribution |-> sim_result.other_contribution,
      life_years_gained |-> sim_result.life_years_gained,
      causal_fraction_mean |->
          IF sim_result.causal_fraction_mean \in {None, 0} THEN Scale
          ELSE sim_result.causal_fraction_mean,
      n_samples |-> a.n_samples, discount_rate |-> a.discount_rate,
      method |-> "monte_carlo" ]

\* one (age, sex) of the loop: "if use_mcmc and HAS_BAYESIAN" calls run_mcmc,
\* whose exception leaves precompute_intervention too; else simulate_qaly is
\* entered with its default apply_confounding
PrecomputeIterate ==
    /\ pc = "precompute" /\ precompute.todo # <<>>
    /\ LET a == precompute.args
           age == Head(precompute.todo)[1]
           sex == Head(precompute.todo)[2]
           raises == RunMcmcRaises(modules.HAS_PYMC, a.hazard_ratio)
       IN  IF a.use_mcmc /\ modules.HAS_BAYESIAN
           THEN /\ IF raises # "<None>"
                   THEN /\ output' = Raised(raises)
                        /\ precompute' = [precompute EXCEPT !.active = FALSE]
                        /\ pc' = "done"
                   ELSE /\ \E trace \in Traces :
                              precompute' =
                                  [precompute EXCEPT
                                     !.todo = Tail(@),
                                     !.results = Append(@, McmcResult(trace, age, sex, a))]
                        /\ UNCHANGED <<pc, output>>
                /\ UNCHANGED <<fn, args, rng, lifetime, paired, results, frailty, setup_rng,
                               qalys_list, life_years_list, history, model, baselines, calc,
                               result, category_priors, lifecycle_results, modules,
                               portfolio>>
           ELSE /\ EnterSimulateQaly([ hazard_ratio |-> a.hazard_ratio,
                                       confounding_prior |-> a.confounding_prior,
                                       start_age |-> age, max_age |-> LIFECYCLE_MAX_AGE,
                                       sex |-> sex, n_simulations |-> a.n_samples,
                                       discount_rate |-> a.discount_rate,
                                       apply_confounding |-> TRUE,
                                       random_state |-> a.random_seed, file |-> a.file ])
                /\ UNCHANGED history

\* simulate_qaly has returned: results[key] = result, all_qaly_gains.append
PrecomputeCollect ==
    /\ pc = "collect"
    /\ LET a == precompute.args
           age == Head(precompute.todo)[1]
           sex == Head(precompute.todo)[2]
       IN  precompute' = [precompute EXCEPT
                            !.todo = Tail(@),
                            !.results = Append(@, MonteCarloResult(output, age, sex, a))]
    /\ fn' = "precompute_intervention"
    /\ pc' = "precompute"
    /\ UNCHANGED <<args, rng, lifetime, paired, results, uncertainty, model, baselines,
                   calc, result, category_priors, lifecycle_results, modules, portfolio>>

\* the summary over all_qaly_gains and the PrecomputedIntervention
PrecomputeReturn ==
    /\ pc = "precompute" /\ precompute.todo = <<>>
    /\ LET all_qaly_gains ==
               [i \in 1..Len(precompute.results) |-> precompute.results[i].qaly_median]
       IN  output' = [ results |-> precompute.results,
                       summary |-> [ qaly_median_all |-> Median(all_qaly_gains),
                                     qaly_mean_all |-> Mean(all_qaly_gains),
                                     qaly_min |-> np_sort(all_qaly_gains)[1],
                                     qaly_max |->
                                         np_sort(all_qaly_gains)[Len(all_qaly_gains)] ] ]
    /\ precompute' = [precompute EXCEPT !.active = FALSE]
    /\ pc' = "done"
    /\ UNCHANGED <<fn, args, rng, lifetime, paired, results, frailty, setup_rng, qalys_list,
                   life_years_list, history, model, baselines, calc, result,
                   category_priors, lifecycle_results, modules, portfolio>>

NextPrecompute ==
    \/ ImportModules
    \/ CallRunMcmc
    \/ CallPrecomputeIntervention
    \/ PrecomputeIterate
    \/ PrecomputeCollect
    \/ PrecomputeReturn
    \/ SimulateQalyIterate
    \/ SimulateQalyReturn
    \/ FastPathYear
    \/ FullPathYear
    \/ StartIntervention
    \/ InterventionYear
    \/ CalculateReturn

SpecPrecompute == Init /\ [][NextPrecompute]_vars

\* ------------------------------------------------------------------------
\* combination.py: get_diminishing_returns_factor applied to a count, and
\* find_optimal_portfolio_from_qalys
\* ------------------------------------------------------------------------
MaxCount == 8

CallDiminishingReturnsFactor ==
    /\ pc = "idle"
    /\ \E n_interventions \in 0..MaxCount :
        /\ args' = [n_interventions |-> n_interventions]
        /\ output' = get_diminishing_returns_factor(n_interventions)
    /\ fn' = "get_diminishing_returns_factor"
    /\ pc' = "done"
    /\ UNCHANGED <<rng, lifetime, paired, results, frailty, setup_rng, qalys_list,
                   life_years_list, history, lifecycle>>

PortfolioIds ==
    {"walking_30min_daily", "daily_exercise_moderate", "strength_training",
     "mediterranean_diet"}
SingleQalyValues == {0 - 100000, 0, 300000, 500000}
SingleQalyTables == [PortfolioIds -> SingleQalyValues]
ExcludeLists == {<<>>, <<"walking_30min_daily">>, <<"quit_smoking">>}
PortfolioSizes == {0, 2, 10}

\* lines 451-454: the exclusions, the available set and the empty path;
\* range(min(max_interventions, len(available))) is fixed here
CallFindOptimalPortfolio ==
    /\ pc = "idle"
    /\ \E single_qalys \in SingleQalyTables, max_interventions \in PortfolioSizes,
          exclude \in ExcludeLists :
        LET available == DOMAIN single_qalys \ {exclude[i] : i \in 1..Len(exclude)}
        IN  /\ args' = [ single_qalys |-> single_qalys,
                         max_interventions |-> max_interventions, exclude |-> exclude ]
            /\ portfolio' = [ single_qalys |-> single_qalys, available |-> available,
                              selected |-> <<>>, portfolio_path |-> <<>>, step |-> 0,
                              steps |-> Min(max_interventions, Cardinality(available)) ]
    /\ fn' = "find_optimal_portfolio_from_qalys"
    /\ pc' = "portfolio"
    /\ UNCHANGED <<rng, lifetime, paired, results, uncertainty, model, baselines, calc,
                   result, category_priors, lifecycle_results, packages>>

\* mutant: every step measures its gain from the first selection alone
CurrentTotal_FirstOnly ==
    IF portfolio.selected # <<>>
    THEN estimate_combined_qaly_from_singles(portfolio.single_qalys,
                                             <<portfolio.selected[1]>>)
    ELSE 0

\* current_total of a step
CurrentTotal ==
    IF portfolio.selected # <<>>
    THEN estimate_combined_qaly_from_singles(portfolio.single_qalys, portfolio.selected)
    ELSE 0

\* candidate_total of int_id
CandidateTotal(int_id) ==
    estimate_combined_qaly_from_singles(portfolio.single_qalys,
                                        Append(portfolio.selected, int_id))

\* "if marginal > best_marginal" keeps the first of the largest marginals in
\* the iteration order of the set, which is any of them
BestIds ==
    { int_id \in portfolio.available :
        \A other \in portfolio.available : CandidateTotal(int_id) >= CandidateTotal(other) }

\* the loop goes on while the range lasts and "if not available: break" has
\* not ended it
PortfolioContinues == portfolio.step < portfolio.steps /\ portfolio.available # {}

\* one step of the greedy loop: the step is appended, or "if best_id is None
\* or best_marginal <= 0: break" ends the loop and the path is returned
PortfolioStep ==
    /\ pc = "portfolio" /\ PortfolioContinues
    /\ \E best_id \in BestIds :
        LET best_total == CandidateTotal(best_id)
            best_marginal == best_total - CurrentTotal
        IN  IF best_marginal <= 0
            THEN /\ output' = portfolio.portfolio_path
                 /\ pc' = "done"
                 /\ UNCHANGED portfolio
            ELSE /\ portfolio' =
                        [portfolio EXCEPT
                           !.selected = Append(@, best_id),
                           !.available = @ \ {best_id},
                           !.step = @ + 1,
                           !.portfolio_path =
                               Append(@, [ step |-> portfolio.step + 1,
                                           added_intervention |-> best_id,
                                           marginal_qaly |-> best_marginal,
                                           total_qaly |-> best_total,
                                           selected_interventions |->
                                               Append(portfolio.selected, best_id) ])]
                 /\ UNCHANGED <<pc, output>>
    /\ UNCHANGED <<fn, args, rng, lifetime, paired, results, frailty, setup_rng, qalys_list,
                   life_years_list, history, model, baselines, calc, result,
                   category_priors, lifecycle_results, packages>>

\* the range is used up, or nothing is available: return portfolio_path
PortfolioReturn ==
    /\ pc = "portfolio" /\ ~PortfolioContinues
    /\ output' = portfolio.portfolio_path
    /\ pc' = "done"
    /\ UNCHANGED <<fn, args, rng, lifetime, paired, results, frailty, setup_rng, qalys_list,
                   life_years_list, history, lifecycle>>

NextCombination ==
    \/ CallDiminishingReturnsFactor
    \/ CallFindOptimalPortfolio
    \/ PortfolioStep
    \/ PortfolioReturn

SpecCombination == Init /\ [][NextCombination]_vars

\* ------------------------------------------------------------------------
\* lifecycle.py: the three life-table lookups, each applied to an age
\* ------------------------------------------------------------------------
InitLookup ==
    /\ args \in {[age |-> age, sex |-> sex] : age \in LookupAges, sex \in Sexes}
    /\ Idle

\* output' is what the lookup returns
Lookup(name, value) ==
    /\ pc = "idle"
    /\ fn' = name
    /\ output' = value
    /\ pc' = "done"
    /\ UNCHANGED <<args, rng, lifetime, paired, results, frailty, setup_rng, qalys_list,
                   life_years_list, history, lifecycle>>

CallMortalityRate == Lookup("get_mortality_rate", get_mortality_rate(args.age, args.sex))
CallCauseFraction == Lookup("get_cause_fraction", get_cause_fraction(args.age))
CallQualityWeight == Lookup("get_quality_weight", get_quality_weight(args.age))

NextLookup ==
    \/ CallMortalityRate
    \/ CallCauseFraction
    \/ CallQualityWeight

SpecLookup == InitLookup /\ [][NextLookup]_vars

\* ------------------------------------------------------------------------
\* confounding.py: adjust_hr and get_confounding_prior, each applied to its
\* arguments
\* ------------------------------------------------------------------------
\* observed hazard ratios: 1.0, and values at which np.exp(np.log(hr)) is not
\* hr in double arithmetic (0.1, 0.35, 2.76 give 0.10000000000000002,
\* 0.3499999999999999, 2.7599999999999993)
ObservedHRs == {100000, 350000, Scale, 2760000}
CausalFractions == {0, 250000, 500000, 750000, Scale}

\* the categories of CATEGORY_PRIORS and one it does not list
Categories == DOMAIN CATEGORY_PRIORS \cup {"fasting"}
\* the keys of EVIDENCE_ADJUSTMENTS, one it does not list, and None
EvidenceTypes ==
    { "meta-analysis", "rct", "cohort", "case-control", "review", "other",
      "mendelian-randomization", NoEvidenceType }

InitConfounding ==
    /\ args \in {[observed_hr |-> hr, causal_fraction |-> cf] :
                    hr \in ObservedHRs, cf \in CausalFractions}
              \cup {[category |-> c, evidence_type |-> e] :
                       c \in Categories, e \in EvidenceTypes}
    /\ Idle

CallAdjustHr ==
    /\ "observed_hr" \in DOMAIN args
    /\ Lookup("adjust_hr", adjust_hr(args.observed_hr, args.causal_fraction))

\* one call of get_confounding_prior with arguments a
EnterConfoundingPrior(a) ==
    LET call == get_confounding_prior(category_priors, a.category, a.evidence_type)
    IN  /\ fn' = "get_confounding_prior"
        /\ args' = a
        /\ output' = call.returned
        /\ category_priors' = call.priors
        /\ pc' = "done"
        /\ UNCHANGED <<rng, lifetime, paired, results, frailty, setup_rng, qalys_list,
                       life_years_list, model, baselines, calc, result, lifecycle_results,
                       packages, portfolio>>

CallConfoundingPrior ==
    /\ pc = "idle"
    /\ "category" \in DOMAIN args
    /\ EnterConfoundingPrior(args)
    /\ UNCHANGED history

\* a later call for the same category with any evidence type
RecallConfoundingPrior ==
    /\ pc = "done" /\ fn = "get_confounding_prior"
    /\ Len(history) + 1 < MaxCalls
    /\ \E e \in EvidenceTypes : EnterConfoundingPrior([args EXCEPT !.evidence_type = e])
    /\ history' = Append(history, [args |-> args, output |-> output])

NextConfounding ==
    \/ CallAdjustHr
    \/ CallConfoundingPrior
    \/ RecallConfoundingPrior

SpecConfounding == InitConfounding /\ [][NextConfounding]_vars

\* ------------------------------------------------------------------------
\* profile.py: get_baseline_mortality_multiplier applied to a profile
\* ------------------------------------------------------------------------
Profiles ==
    { Profile(40, sex, bmi, smoking, diabetes, hypertension, activity) :
        sex \in {"male"}, bmi \in DOMAIN BMI_MORTALITY_RR,
        smoking \in DOMAIN SMOKING_MORTALITY_RR, diabetes \in BOOLEAN,
        hypertension \in BOOLEAN, activity \in DOMAIN ACTIVITY_MORTALITY_RR }

InitProfile ==
    /\ args \in {[profile |-> p] : p \in Profiles}
    /\ Idle

CallBaselineMortalityMultiplier ==
    Lookup("get_baseline_mortality_multiplier", get_baseline_mortality_multiplier(args.profile))

NextProfile == CallBaselineMortalityMultiplier

SpecProfile == InitProfile /\ [][NextProfile]_vars

\* ------------------------------------------------------------------------
\* Properties of the Markov simulator (checked under Spec)
\* ------------------------------------------------------------------------
\* the hazard ratio (or frailty) the running loop multiplies mortality by
HrUsed ==
    IF fn = "markov" THEN args.intervention_hr
    ELSE IF InPaired THEN ArmHr(arm, args.intervention_hr)
    ELSE frailty

\* the age of the latest iteration
LatestAge == args.start_age + year - 1

\* an iteration of the running lifetime has been executed
YearDone == pc \in {"loop", "done", "setup"} /\ year > 0

\* C1: in simulate_lifetime_markov and simulate_lifetime_paired every year
\* accrues the QALY first, then draws incidence, then draws mortality: the
\* year's quality weight comes from the conditions present at the start of
\* the year, the year's death probability from the conditions present after
\* that year's incidence.
C1_StepOrder ==
    (fn \in {"markov", "paired"} /\ YearDone) =>
        /\ quality = YearQuality(year_start, LatestAge)
        /\ mortality = YearMortality(state, LatestAge, args.sex, HrUsed)
        /\ Present(year_start) \subseteq Present(state)

\* C1 witness: a year in which a condition was acquired, whose quality weight
\* ignores it and whose death probability includes it
C1_Witness ==
    /\ fn \in {"markov", "paired"} /\ YearDone
    /\ Present(year_start) # Present(state)
    /\ quality # YearQuality(state, LatestAge)
    /\ mortality # YearMortality(year_start, LatestAge, args.sex, HrUsed)

\* C2: simulate_lifetime_paired with intervention_hr = 1.0 returns two
\* identical results, so the QALY gain of the pair is exactly 0.
C2_PairedNullHr ==
    (fn = "paired" /\ pc = "done" /\ args.intervention_hr = Scale) =>
        /\ results[1] = results[2]
        /\ results[2].qalys - results[1].qalys = 0

\* C2 witness: such a pair that lived several years and acquired a condition
C2_Witness ==
    /\ fn = "paired" /\ pc = "done" /\ args.intervention_hr = Scale
    /\ results[1].life_years >= 2
    /\ \E c \in Conditions : results[1].conditions_acquired[c] # None

\* C7, read literally: every returned lifetime has life_years <= max_age - start_age.
C7_LifeYearsWithinHorizon ==
    /\ \A i \in 1..Len(results) : results[i].life_years <= NYears
    /\ \A i \in 1..Len(life_years_list) : life_years_list[i] <= NYears

\* C7, in the form that holds: every lifetime runs at most max(0, max_age - start_age) yearly
\* steps, and death is absorbing: from a dead state the loop is left (or the
\* next lifetime begins) without accruing a QALY or a life-year and without a
\* further transition.
C7_BoundedAndAbsorbing ==
    /\ [](/\ year <= Max(0, NYears)
          /\ life_years = year
          /\ \A i \in 1..Len(results) : results[i].life_years <= Max(0, NYears)
          /\ \A i \in 1..Len(life_years_list) : life_years_list[i] <= Max(0, NYears))
    /\ [][(pc = "loop" /\ ~state.alive) =>
              /\ pc' # "loop" \/ year' = 0
              /\ pc' # "loop" => <<state, qalys, life_years>>' = <<state, qalys, life_years>>]_vars

\* C7 witness: a lifetime that died before its horizon, now leaving the loop
C7_Witness ==
    /\ pc = "loop" /\ ~state.alive
    /\ year > 0 /\ year < NYears

\* C8: the death probability compared with the mortality draw is
\* min(base rate x product of the present conditions' multipliers x hazard
\* ratio (or frailty), 0.99) in every loop, and never exceeds 0.99.
C8_MortalityCapped ==
    YearDone =>
        /\ mortality = Min(FMul(FMul(get_mortality_rate(LatestAge, args.sex),
                                     get_mortality_multiplier(state)), HrUsed),
                           MORTALITY_CAP)
        /\ mortality <= MORTALITY_CAP

\* C8 witness: a year whose uncapped product exceeds 0.99
C8_Witness ==
    /\ YearDone
    /\ FMul(FMul(get_mortality_rate(LatestAge, args.sex),
                 get_mortality_multiplier(state)), HrUsed) > MORTALITY_CAP
    /\ mortality = MORTALITY_CAP

\* C9: in simulate_with_state_uncertainty each lifetime starts with every
\* known condition at its asserted value, each unknown condition decided by
\* one draw against its prevalence at start_age (no draw is spent on a known
\* condition), and the reported known and unknown conditions partition the
\* six tracked conditions.
C9_KnownFixedUnknownSampled ==
    LET known == args.known_state
        unknown == UnknownConditions(known)
        draw(i) == DrawLevels[StreamIndex(setup_rng.seed, setup_rng.pos + i)]
    IN  /\ (fn = "uncertainty" /\ pc = "loop" /\ year = 0) =>
              /\ \A c \in DOMAIN known : state[c] = known[c]
              /\ \A i \in 1..Len(unknown) :
                    state[unknown[i]] = (draw(i) < get_prevalence(unknown[i], args.start_age))
              /\ rng.pos = setup_rng.pos + 1 + Len(unknown)
        /\ (fn = "uncertainty" /\ pc = "done") =>
              /\ output.known_conditions = DOMAIN known
              /\ output.known_conditions \cup {output.unknown_conditions[i] :
                    i \in 1..Len(output.unknown_conditions)} = Conditions
              /\ \A i \in 1..Len(output.unknown_conditions) :
                    output.unknown_conditions[i] \notin output.known_conditions
              /\ Len(output.unknown_conditions) + Cardinality(output.known_conditions)
                    = Len(ConditionList)

\* C9 witness: a lifetime starting with a known condition asserted present,
\* an unknown condition sampled present and an unknown condition sampled absent
C9_Witness ==
    /\ fn = "uncertainty" /\ pc = "loop" /\ year = 0
    /\ \E c \in DOMAIN args.known_state : args.known_state[c] /\ state[c]
    /\ \E c, d \in Conditions \ DOMAIN args.known_state : state[c] /\ ~state[d]

\* the previous call's known conditions are a strict subset of this call's,
\* with the same asserted values
MoreKnown ==
    /\ fn = "uncertainty" /\ pc = "done" /\ Len(history) >= 1
    /\ LET before == history[Len(history)].args.known_state
       IN  /\ DOMAIN before \subseteq DOMAIN args.known_state
           /\ DOMAIN before # DOMAIN args.known_state
           /\ \A c \in DOMAIN before : before[c] = args.known_state[c]

Tolerance == Scale \div 100

Neutral == PathwayHRs(Scale, Scale, Scale)

Returned == pc = "done" /\ fn = "lifecycle"

\* C3: calculate called with PathwayHRs(1.0, 1.0, 1.0) returns a qaly_gain of
\* absolute value below 0.01, whatever start_age, sex, discount_rate and
\* baseline_mortality_multiplier the model was constructed with, on the fast
\* path as on the full computation path.
C3_NeutralHrNoGain ==
    (Returned /\ calc.pathway_hrs = Neutral) => Abs(result.qaly_gain) < Tolerance

\* a neutral calculation of more than ten QALYs has returned, its baseline
\* taken from the cache and not equal to what the intervention loop integrated
C3_Witness ==
    /\ Returned
    /\ calc.pathway_hrs = Neutral
    /\ result.baseline_qalys > 10 * Scale
    /\ model.precomputed_baseline_qalys # None
    /\ result.qaly_gain # 0

SumContributions(r) ==
    r.pathway_contributions.cvd + r.pathway_contributions.cancer
        + r.pathway_contributions.other

\* C4: the cvd, cancer and other contributions of every returned result sum to
\* its qaly_gain within 0.01, for hazard ratios above, below and mixed around 1.
C4_ContributionsSumToGain ==
    Returned => Abs(SumContributions(result) - result.qaly_gain) < Tolerance

\* C5: every annual mortality probability applied to a survival curve, for the
\* baseline and for the intervention arm, is at most 0.99, so that both
\* survival probabilities stay in [0, 1] and never increase from one year to
\* the next.
C5_MortalityClamped ==
    (fn = "lifecycle" /\ pc \in {"fast", "full", "intervention", "done"}) =>
        /\ calc.base_qx <= BASE_QX_CAP
        /\ calc.intervention_qx <= BASE_QX_CAP
        /\ calc.baseline_survival \in 0..Scale
        /\ calc.intervention_survival \in 0..Scale
        /\ calc.baseline_survival <= calc.survival_before.baseline
        /\ calc.intervention_survival <= calc.survival_before.intervention

\* C6: over a horizon of at least two years, hazard ratios that are all at most
\* 1 with at least one below 1 give intervention_qalys strictly above
\* baseline_qalys and a qaly_gain strictly above 0.
C6_LowerHrMoreQalys ==
    ( /\ Returned
      /\ Horizon >= 2
      /\ \A p \in Pathways : calc.pathway_hrs[p] <= Scale
      /\ \E p \in Pathways : calc.pathway_hrs[p] < Scale )
    => (result.intervention_qalys > result.baseline_qalys /\ result.qaly_gain > 0)

\* ------------------------------------------------------------------------
\* Further properties of simulate_with_state_uncertainty (checked under Spec)
\* ------------------------------------------------------------------------
\* C11: the effective frailty std of simulate_with_state_uncertainty is
\* FRAILTY_STD * sqrt(unknown conditions / 6), i.e. 6 * std^2 equals
\* FRAILTY_STD^2 * (number of unknown conditions) up to the 0.0002 that the
\* four-decimal Sqrt leaves; it is FRAILTY_STD when
\* nothing is known, 0 when all six are known, in which case the frailty of
\* every lifetime is exactly 1, and it does not increase when a condition is
\* added to known_state.
C11_EffectiveFrailtyStd ==
    LET unknown == Cardinality(Conditions) - Cardinality(DOMAIN args.known_state \cap Conditions)
        std == output.effective_frailty_std
    IN  /\ (fn = "uncertainty" /\ pc = "done") =>
              /\ Abs(6 * FMul(std, std) - unknown * FMul(FRAILTY_STD, FRAILTY_STD))
                    <= 200
              /\ args.known_state = NoKnownState => std = FRAILTY_STD
              /\ DOMAIN args.known_state = Conditions => std = 0
        /\ (fn = "uncertainty" /\ pc = "loop" /\ DOMAIN args.known_state = Conditions) =>
              frailty = Scale
        /\ MoreKnown =>
              std <= history[Len(history)].output.effective_frailty_std

\* C11 witness: a call with two of the six conditions known has returned after
\* a call with fewer known, its std strictly between 0 and FRAILTY_STD
C11_Witness ==
    /\ MoreKnown
    /\ Cardinality(DOMAIN args.known_state) = 2
    /\ output.effective_frailty_std > 0
    /\ output.effective_frailty_std < FRAILTY_STD

C12_SimulateQalyRepeated ==
    /\ pc = "done" /\ fn = "simulate_qaly"
    /\ Len(history) = 1
    /\ history[1].args = args
    /\ args.apply_confounding
    /\ baselines.loaded
    /\ output.std > 0

\* ------------------------------------------------------------------------
\* The precomputed baseline (checked under SpecLifecycle)
\* ------------------------------------------------------------------------
\* calculate is in, or has left, its baseline loop
PathChosen == fn = "lifecycle" /\ pc \in {"fast", "full"}

\* C13: calculate takes the precomputed fast path only when use_precomputed
\* is true, discount_rate is 0.03 and baseline_mortality_multiplier is 1.0;
\* with any of the three otherwise it runs the full integration, and the
\* baseline QALYs it starts from are then 0, not a cached value.
C13_FastPathOnlyForDefaults ==
    LET defaults == /\ model.use_precomputed
                    /\ model.discount_rate = 30000
                    /\ model.baseline_mortality_multiplier = Scale
    IN  /\ (fn = "lifecycle" /\ pc = "fast") => defaults
        /\ (PathChosen /\ ~defaults) =>
              /\ pc = "full"
              /\ model.precomputed_baseline_qalys = None
              /\ calc.year = 0 => calc.baseline_qalys = 0

\* both sides happen: a fast path, entered with a cached value
C13_Witness ==
    /\ fn = "lifecycle" /\ pc = "fast"
    /\ calc.year > 0
    /\ calc.baseline_qalys = model.precomputed_baseline_qalys
    /\ calc.baseline_qalys > 0

\* the lookup misses: the age is outside 0..100, the file is absent, or the
\* file has no entry for this sex and age
CacheMiss ==
    \/ model.start_age < 0
    \/ model.start_age > 100
    \/ ~model.file.exists
    \/ <<model.sex, model.start_age>> \notin model.file.keys

\* C14: a cache miss is never a hard failure: when the age is outside
\* [0, 100], the file is absent or it has no entry for the sex and age, the
\* lookup gives None, nothing is raised, and construction and calculate go
\* through the full computation path.
C14_CacheMissFallsBack ==
    (fn = "lifecycle" /\ CacheMiss) =>
        /\ model.precomputed_baseline_qalys = None
        /\ pc \in {"constructed", "full", "intervention", "done"}

\* a model that asked for the cached value, missed it because the file lacks
\* the entry, and returned from calculate
C14_Witness ==
    /\ fn = "lifecycle" /\ pc = "done"
    /\ model.use_precomputed
    /\ model.discount_rate = 30000
    /\ model.baseline_mortality_multiplier = Scale
    /\ model.file.exists
    /\ model.start_age \in 0..100
    /\ CacheMiss
    /\ result.baseline_qalys > 0

\* ------------------------------------------------------------------------
\* Properties of the life-table lookups (checked under SpecLookup)
\* ------------------------------------------------------------------------
\* C15: for every age, on an anchor, between anchors, below the first or
\* above the last, the cvd, cancer and other fractions get_cause_fraction
\* returns sum to 1.0, to within 1e-6.
C15_CauseFractionsSumToOne ==
    (fn = "get_cause_fraction" /\ pc = "done") =>
        Abs(output.cvd + output.cancer + output.other - Scale) <= 1

\* an age strictly between two anchors, where all three fractions are
\* interpolated and differ from both anchors' values
C15_Witness ==
    /\ fn = "get_cause_fraction" /\ pc = "done"
    /\ args.age = 47
    /\ \A a \in DOMAIN CAUSE_FRACTIONS : \A p \in Pathways : output[p] # CAUSE_FRACTIONS[a][p]

\* the table a lookup reads, and the stored value at anchor a
LookupTable ==
    IF fn = "get_mortality_rate" THEN CDC_LIFE_TABLE[args.sex]
    ELSE IF fn = "get_cause_fraction" THEN CAUSE_FRACTIONS
    ELSE QUALITY_WEIGHTS

LookupDone == pc = "done" /\ fn \in {"get_mortality_rate", "get_cause_fraction", "get_quality_weight"}

\* C16: in each of the three lookups an age at or below the first anchor
\* returns the first anchor's value, an age at or above the last anchor
\* returns the last anchor's value, and an age equal to any anchor returns
\* exactly that anchor's stored value.
C16_AnchorsExact ==
    LookupDone =>
        /\ args.age <= FirstAge(LookupTable) => output = LookupTable[FirstAge(LookupTable)]
        /\ args.age >= LastAge(LookupTable) => output = LookupTable[LastAge(LookupTable)]
        /\ args.age \in DOMAIN LookupTable => output = LookupTable[args.age]

\* the part of C16 that the log-linear interpolation leaves intact: clamping
\* outside the anchors in all three lookups, and exact anchor values in the
\* two linear ones
C16_ClampedAndLinearExact ==
    LookupDone =>
        /\ args.age <= FirstAge(LookupTable) => output = LookupTable[FirstAge(LookupTable)]
        /\ args.age >= LastAge(LookupTable) => output = LookupTable[LastAge(LookupTable)]
        /\ (args.age \in DOMAIN LookupTable /\ fn # "get_mortality_rate") =>
              output = LookupTable[args.age]

\* ------------------------------------------------------------------------
\* Properties of the confounding adjustment (checked under SpecConfounding)
\* ------------------------------------------------------------------------
\* C17: for every observed hazard ratio hr > 0, adjust_hr(hr, 1.0) equals hr,
\* adjust_hr(hr, 0.0) equals 1.0, and for a causal fraction strictly between
\* 0 and 1 with hr other than 1 the result lies strictly between hr and 1.0.
C17_AdjustHrShrinksTowardNull ==
    (fn = "adjust_hr" /\ pc = "done") =>
        /\ args.causal_fraction = Scale => output = args.observed_hr
        /\ args.causal_fraction = 0 => output = Scale
        /\ (args.causal_fraction > 0 /\ args.causal_fraction < Scale
            /\ args.observed_hr # Scale) =>
              /\ Min(args.observed_hr, Scale) < output
              /\ output < Max(args.observed_hr, Scale)

\* the part of C17 that the round trip through log and exp leaves intact:
\* with causal fraction 1.0 the result is hr to five decimals
C17_AdjustHrUpToRounding ==
    (fn = "adjust_hr" /\ pc = "done") =>
        /\ args.causal_fraction = Scale => Abs(output - args.observed_hr) <= 30
        /\ args.causal_fraction = 0 => output = Scale
        /\ (args.causal_fraction > 0 /\ args.causal_fraction < Scale
            /\ args.observed_hr # Scale) =>
              /\ Min(args.observed_hr, Scale) < output
              /\ output < Max(args.observed_hr, Scale)

PriorReturned == fn = "get_confounding_prior" /\ pc = "done"

\* the entry of CATEGORY_PRIORS a category stands for
BasePrior(category) == CATEGORY_PRIORS[BaseCategory(CATEGORY_PRIORS, category)]

\* C18: for every category and evidence type get_confounding_prior returns a
\* prior with the category's base beta and with the base alpha times the
\* evidence multiplier (1.5 for "rct", 0.8 for "cohort"), and leaves the
\* shared CATEGORY_PRIORS unchanged; the "rct" prior of a category has a
\* strictly larger mean than its "cohort" prior.
C18_EvidenceScalesAlphaOnly ==
    PriorReturned =>
        /\ output.beta = BasePrior(args.category).beta
        /\ output.alpha = FMul(BasePrior(args.category).alpha,
                               EvidenceMultiplier(args.evidence_type))
        /\ args.evidence_type = "rct" =>
              output.alpha = FMul(BasePrior(args.category).alpha, 1500000)
        /\ args.evidence_type = "cohort" =>
              output.alpha = FMul(BasePrior(args.category).alpha, 800000)
        /\ category_priors = CATEGORY_PRIORS
        /\ \A i \in 1..Len(history) :
              (args.evidence_type = "rct" /\ history[i].args.evidence_type = "cohort") =>
                  PriorMean(output) > PriorMean(history[i].output)

\* an "rct" prior asked for after the "cohort" prior of the same category
C18_Witness ==
    /\ PriorReturned
    /\ Len(history) = 1
    /\ history[1].args = [category |-> "exercise", evidence_type |-> "cohort"]
    /\ args.evidence_type = "rct"
    /\ output = ConfoundingPrior(1800000, 6000000)
    /\ history[1].output = ConfoundingPrior(960000, 6000000)

C21_MultiplierIgnoresConditions ==
    (fn = "get_baseline_mortality_multiplier" /\ pc = "done") =>
        LET p == args.profile
            cleared == Profile(p.age, p.sex, p.bmi_category, p.smoking_status, FALSE, FALSE,
                               p.activity_level)
        IN  output = get_baseline_mortality_multiplier(cleared)

\* ------------------------------------------------------------------------
\* The degenerate result of simulate.py (checked under Spec)
\* ------------------------------------------------------------------------
SimulateFunctions ==
    {"simulate_qaly", "simulate_qaly_profile", "simulate_qaly_profile_vectorized"}

\* C22: called with an intervention whose mortality is None, each of
\* simulate_qaly, simulate_qaly_profile and simulate_qaly_profile_vectorized
\* returns, for every age, sex, profile and sample count, a result whose
\* median, mean, std, interval bounds, pathway contributions and
\* life_years_gained are 0 and whose prob_positive is 0.5, without entering
\* the sampling loop.
C22_NoMortalityDegenerate ==
    (fn \in SimulateFunctions /\ args.hazard_ratio = NoMortality) =>
        /\ pc = "done"
        /\ output.median = 0 /\ output.mean = 0 /\ output.std = 0
        /\ output.ci95 = <<0, 0>> /\ output.ci50 = <<0, 0>>
        /\ output.cvd_contribution = 0 /\ output.cancer_contribution = 0
        /\ output.other_contribution = 0
        /\ output.life_years_gained = 0
        /\ output.prob_positive = Scale \div 2
        /\ output.n_simulations = args.n_simulations

\* the vectorized profile simulation called with no mortality effect, no
\* sample and an age beyond the life table
C22_Witness ==
    /\ fn = "simulate_qaly_profile_vectorized" /\ pc = "done"
    /\ args.hazard_ratio = NoMortality
    /\ args.n_simulations = 0
    /\ args.profile.age = 101
    /\ output.prob_positive = Scale \div 2

\* ------------------------------------------------------------------------
\* MCMC without its backend (checked under SpecPrecompute)
\* ------------------------------------------------------------------------
\* pymc or arviz is missing where the modules were imported
BackendUnavailable == modules.imported /\ ~(modules.pymc /\ modules.arviz)

\* C23: with the backend unavailable, run_mcmc ends with ImportError, and
\* precompute_intervention called with use_mcmc = True never enters
\* simulate_qaly, never holds a result of method "monte_carlo", and ends with
\* the ImportError of run_mcmc.
C23_NoSilentSubstitution ==
    BackendUnavailable =>
        /\ (fn = "run_mcmc" /\ pc = "done") => output = Raised("ImportError")
        /\ (precompute.args # <<>> /\ precompute.args.use_mcmc) =>
               /\ fn = "precompute_intervention"
               /\ \A i \in 1..Len(precompute.results) :
                      precompute.results[i].method # "monte_carlo"
               /\ pc = "done" => output = Raised("ImportError")

\* precompute_intervention asked for MCMC where pymc is installed and arviz
\* is not, and ended
C23_Witness ==
    /\ modules.imported /\ modules.pymc /\ ~modules.arviz
    /\ fn = "precompute_intervention" /\ pc = "done"
    /\ precompute.args.use_mcmc
    /\ Len(precompute.args.ages) = 2
    /\ output = Raised("ImportError")

\* ------------------------------------------------------------------------
\* Properties of the combination estimates (checked under SpecCombination)
\* ------------------------------------------------------------------------
FactorDone == fn = "get_diminishing_returns_factor" /\ pc = "done"

PreviousTotal(i) == IF i = 1 THEN 0 ELSE portfolio.portfolio_path[i - 1].total_qaly

\* no available intervention would raise the total of the path so far
NoPositiveGain ==
    \A int_id \in portfolio.available :
        estimate_combined_qaly_from_singles(portfolio.single_qalys,
                                            Append(portfolio.selected, int_id))
            <= PreviousTotal(Len(portfolio.portfolio_path) + 1)

\* C25: in the path of find_optimal_portfolio_from_qalys every step's
\* marginal_qaly is positive and equals its total_qaly minus the total_qaly of
\* the step before (0 before the first), so that total_qaly strictly
\* increases along the path; and a step of the loop at which no available
\* intervention has a positive marginal gain ends the loop with the path as
\* it is, while any other step appends one entry.
C25_GreedyPathIncreases ==
    /\ [](\A i \in 1..Len(portfolio.portfolio_path) :
            LET entry == portfolio.portfolio_path[i]
            IN  /\ entry.step = i
                /\ entry.marginal_qaly > 0
                /\ entry.marginal_qaly = entry.total_qaly - PreviousTotal(i)
                /\ entry.total_qaly > PreviousTotal(i))
    /\ [][(pc = "portfolio" /\ PortfolioContinues) =>
              IF NoPositiveGain
              THEN pc' = "done" /\ output' = portfolio.portfolio_path
              ELSE /\ pc' = "portfolio"
                   /\ Len(portfolio'.portfolio_path) = Len(portfolio.portfolio_path) + 1]_vars

\* a returned path of two or more steps that the break ended, with
\* interventions still available and steps of the range left
C25_Witness ==
    /\ fn = "find_optimal_portfolio_from_qalys" /\ pc = "done"
    /\ Len(output) >= 2
    /\ portfolio.available # {}
    /\ portfolio.step < portfolio.steps
    /\ output[2].marginal_qaly < output[2].total_qaly

\* ------------------------------------------------------------------------
\* The two arms of simulate_lifetime_paired (checked under Spec)
\* ------------------------------------------------------------------------
\* whether the baseline arm, now in results[1], held condition c when it had
\* run y years: c was there from the start or was acquired in one of them
BaselineArmHad(c, y) ==
    \/ ArmState(args.initial_state)[c]
    \/ /\ results[1].conditions_acquired[c] # None
       /\ results[1].conditions_acquired[c] < args.start_age + y

\* C26: in simulate_lifetime_paired with intervention_hr <= 1 the
\* intervention arm lives at least as many years as the baseline arm and,
\* the discount rate being >= 0, gains at least its QALYs; with
\* intervention_hr >= 1 at most as many; and after every year that the
\* baseline arm lived too, the intervention arm holds the condition flags the
\* baseline arm held after that year.
C26_InterventionArmOutlives ==
    /\ (fn = "paired" /\ pc = "done" /\ args.discount_rate >= 0) =>
           /\ args.intervention_hr <= Scale =>
                  /\ results[2].life_years >= results[1].life_years
                  /\ results[2].qalys >= results[1].qalys
           /\ args.intervention_hr >= Scale =>
                  /\ results[2].life_years <= results[1].life_years
                  /\ results[2].qalys <= results[1].qalys
    /\ (fn = "paired" /\ pc = "loop" /\ arm = 2 /\ year <= results[1].life_years) =>
           \A c \in Conditions : state[c] = BaselineArmHad(c, year)

\* a pair whose intervention arm outlived a baseline arm that had acquired a
\* condition on its way
C26_Witness ==
    /\ fn = "paired" /\ pc = "done"
    /\ args.intervention_hr < Scale
    /\ results[2].life_years > results[1].life_years
    /\ results[2].qalys > results[1].qalys
    /\ \E c \in Conditions : results[1].conditions_acquired[c] # None

\* ------------------------------------------------------------------------
\* The fast path against the full computation path (checked under SpecMaxAge)
\* ------------------------------------------------------------------------
\* C27: whenever calculate takes the fast path, the baseline QALYs it uses
\* equal, to the 0.0005 of the table's rounding and 1e-6 of arithmetic, the
\* baseline the full computation path would integrate for the model's own
\* start_age, sex, discount_rate, baseline multiplier and max_age.
C27_FastPathMatchesFullPath ==
    (fn = "lifecycle" /\ pc \in {"fast", "intervention", "done"}
        /\ model.precomputed_baseline_qalys # None) =>
        Abs(calc.baseline_qalys
            - FullPathBaseline(model.start_age, model.sex, model.discount_rate,
                               model.baseline_mortality_multiplier, model.max_age))
            <= 501

\* the same for models whose max_age is the 100 that the table was computed
\* with: there the two baselines agree
C27_AgreesAtDefaultMaxAge ==
    model.max_age = LIFECYCLE_MAX_AGE => C27_FastPathMatchesFullPath

\* ------------------------------------------------------------------------
\* The caller's HealthState
\* ------------------------------------------------------------------------
InMarkovSimulator == fn \in {"markov", "paired", "monte_carlo"}

\* C28: during and after simulate_lifetime_markov, simulate_lifetime_paired
\* and simulate_markov_monte_carlo, the HealthState passed as initial_state
\* holds the alive flag and the six condition flags it held at the call.
C28_CallerStateUntouched ==
    (InMarkovSimulator /\ pc \in {"loop", "setup", "done"}) =>
        caller = args.initial_state

\* a Monte Carlo call seeded with one HealthState ran several lifetimes, in
\* which conditions were acquired and the simulated person died
C28_Witness ==
    /\ fn = "monte_carlo" /\ pc = "done"
    /\ ~args.initial_state.is_none
    /\ Len(results) >= 4
    /\ ~state.alive
    /\ \E i \in 1..Len(results) :
          \E c \in Conditions : results[i].conditions_acquired[c] # None
    /\ caller = args.initial_state

\* ------------------------------------------------------------------------
\* Conditions are absorbing and recorded once
\* ------------------------------------------------------------------------
\* the condition was set in the HealthState the lifetime started from
InitiallyPresent(c) == ~args.initial_state.is_none /\ args.initial_state[c]

\* the step is one iteration of a lifetime's yearly loop
YearStep == pc = "loop" /\ pc' = "loop" /\ year' = year + 1

\* C29: within one simulated lifetime a condition flag that is true stays
\* true; simulate_lifetime_markov draws once per absent condition and once for
\* mortality; conditions_acquired[c] is written only in the iteration in which
\* c turns from absent to present, with that iteration's age, and never again;
\* it is None for the conditions present at the start and for those never
\* acquired.
C29_ConditionsAbsorbing ==
    /\ [](InMarkovSimulator =>
            \A c \in Conditions :
               (conditions_acquired[c] # None) <=> (state[c] /\ ~InitiallyPresent(c)))
    /\ [][YearStep =>
            /\ \A c \in Conditions :
                 /\ state[c] => state'[c]
                 /\ conditions_acquired[c] # None =>
                       conditions_acquired'[c] = conditions_acquired[c]
                 /\ conditions_acquired'[c] # conditions_acquired[c] =>
                       ~state[c] /\ state'[c] /\ conditions_acquired'[c] = Age
                 /\ (~state[c] /\ state'[c]) => conditions_acquired'[c] = Age
            /\ fn = "markov" => rng'.pos = rng.pos + AbsentCount(state) + 1]_vars

\* a lifetime that started with stroke acquired another condition, lived on
\* for at least a year with both, and ended with stroke never recorded
C29_Witness ==
    /\ fn = "markov" /\ pc = "done"
    /\ InitiallyPresent("stroke") /\ args.initial_state.alive
    /\ results[1].conditions_acquired["stroke"] = None
    /\ \E c \in Conditions :
          /\ results[1].conditions_acquired[c] # None
          /\ results[1].conditions_acquired[c] + 1 < results[1].death_age
    /\ \E c \in Conditions : ~state[c]

\* ------------------------------------------------------------------------
\* The baseline arm against simulate_lifetime_markov
\* ------------------------------------------------------------------------
\* what simulate_lifetime_markov returns for the arguments of the paired call,
\* intervention_hr = 1.0 and the draw outcomes the pair used
MarkovOnSameDraws ==
    MarkovLifetime(args.initial_state, args.start_age, args.sex, Scale,
                   args.discount_rate, args.max_age, condition_draws, mortality_draws)

\* C30: for every initial_state (one with alive=False included), start age
\* and sex and the same outcomes of the draws, the baseline arm returned by
\* simulate_lifetime_paired is the MarkovResult simulate_lifetime_markov
\* returns with intervention_hr = 1.0.
C30_BaselineArmRefinesMarkov ==
    (fn = "paired" /\ pc = "done") => results[1] = MarkovOnSameDraws

\* the same for the initial states that are None or alive: there the two agree
C30_AgreesWhenAlive ==
    (fn = "paired" /\ pc = "done"
        /\ (args.initial_state.is_none \/ args.initial_state.alive)) =>
        results[1] = MarkovOnSameDraws

\* a pair from an alive initial state whose baseline arm lived several years
\* and acquired a condition
C30_AliveWitness ==
    /\ fn = "paired" /\ pc = "done"
    /\ ~args.initial_state.is_none /\ args.initial_state.alive
    /\ results[1].life_years >= 2
    /\ \E c \in Conditions : results[1].conditions_acquired[c] # None
    /\ results[1] = MarkovOnSameDraws
====
